---- MODULE Spec2Model ----
(***************************************************************************)
(* Model of the MediCare-BE document pipeline: the time normaliser         *)
(* (convert_time_to_iso), the reminder calendar (generate_reminders), the  *)
(* JSON extractor (robust_json_parse), the medication builder and the      *)
(* followup loop of parse_discharge_summary_with_vision, and the bill and  *)
(* report batches of create_patient_endpoint.                              *)
(*                                                                         *)
(* Text is a sequence of one-character strings.  A calendar date is its    *)
(* proleptic Gregorian ordinal (datetime.date.toordinal).  An optional     *)
(* value is <<>> (None) or <<v>>.                                          *)
(***************************************************************************)
EXTENDS Integers, Sequences, FiniteSets, TLC

(***************************************************************************)
(* Calendar arithmetic of datetime.date                                    *)
(***************************************************************************)
IsLeap(y) == (y % 4 = 0) /\ ((y % 100 # 0) \/ (y % 400 = 0))

DaysInMonth(y, m) ==
    IF m = 2 THEN (IF IsLeap(y) THEN 29 ELSE 28)
    ELSE IF m \in {4, 6, 9, 11} THEN 30 ELSE 31

DaysBeforeYear(y) ==
    (y - 1) * 365 + ((y - 1) \div 4) - ((y - 1) \div 100) + ((y - 1) \div 400)

RECURSIVE DaysBeforeMonth(_, _)
DaysBeforeMonth(y, m) ==
    IF m = 1 THEN 0 ELSE DaysBeforeMonth(y, m - 1) + DaysInMonth(y, m - 1)

\* date(y, m, d).toordinal()
ToOrdinal(y, m, d) == DaysBeforeYear(y) + DaysBeforeMonth(y, m) + d

\* date.fromordinal(n) as [year, month, day]
RECURSIVE MonthDay(_, _, _)
MonthDay(y, m, rest) ==
    IF rest <= DaysInMonth(y, m) THEN [year |-> y, month |-> m, day |-> rest]
    ELSE MonthDay(y, m + 1, rest - DaysInMonth(y, m))

RECURSIVE YearFrom(_, _)
\* the year of ordinal n, searched upwards from y <= that year
YearFrom(n, y) == IF n <= DaysBeforeYear(y + 1) THEN y ELSE YearFrom(n, y + 1)

MonthDayIn(n, y) == MonthDay(y, 1, n - DaysBeforeYear(y))

FromOrdinal(n) == MonthDayIn(n, YearFrom(n, ((n - 1) \div 366) + 1))

\* date.weekday(): 0 = Monday .. 6 = Sunday
Weekday(n) == (n + 6) % 7

\* d + timedelta(days = k)
AddDays(d, k) == d + k

(***************************************************************************)
(* DayEnum and FrequencyEnum (schemas/medications.py)                      *)
(***************************************************************************)
DayEnumList ==
    <<"monday", "tuesday", "wednesday", "thursday", "friday", "saturday", "sunday">>

DayEnum == {DayEnumList[i] : i \in 1..Len(DayEnumList)}

FrequencyEnum ==
    {"daily", "alternate_days", "twice_a_week", "weekly", "as_needed", "custom"}

\* DayEnum(list(DayEnum)[index])
DayAt(index) == DayEnumList[index + 1]

(***************************************************************************)
(* str operations used by convert_time_to_iso                              *)
(***************************************************************************)
LowerLetters ==
    <<"a","b","c","d","e","f","g","h","i","j","k","l","m",
      "n","o","p","q","r","s","t","u","v","w","x","y","z">>

UpperLetters ==
    <<"A","B","C","D","E","F","G","H","I","J","K","L","M",
      "N","O","P","Q","R","S","T","U","V","W","X","Y","Z">>

DigitChars == <<"0","1","2","3","4","5","6","7","8","9">>

DigitValue == [c \in {DigitChars[i] : i \in 1..10} |->
                  (CHOOSE i \in 1..10 : DigitChars[i] = c) - 1]

IsDigit(c) == c \in DOMAIN DigitValue

DigitVal(c) == DigitValue[c]

IsSpace(c) == c \in {" ", "\t", "\n"}

UpperOf == [c \in {LowerLetters[i] : i \in 1..26} |->
               UpperLetters[CHOOSE i \in 1..26 : LowerLetters[i] = c]]

UpperChar(c) == IF c \in DOMAIN UpperOf THEN UpperOf[c] ELSE c

\* s.upper()
Upper(s) == [i \in 1..Len(s) |-> UpperChar(s[i])]

RECURSIVE LStrip(_)
LStrip(s) == IF s # <<>> /\ IsSpace(Head(s)) THEN LStrip(Tail(s)) ELSE s

RECURSIVE RStrip(_)
RStrip(s) ==
    IF s # <<>> /\ IsSpace(s[Len(s)]) THEN RStrip(SubSeq(s, 1, Len(s) - 1)) ELSE s

\* s.strip()
Strip(s) == RStrip(LStrip(s))

StartsWith(s, p) == Len(p) <= Len(s) /\ SubSeq(s, 1, Len(p)) = p

\* p in s
Contains(s, p) ==
    \E i \in 1..(Len(s) - Len(p) + 1) : SubSeq(s, i, i + Len(p) - 1) = p

\* s.replace(p, ''): the non-overlapping occurrences of p, left to right
RECURSIVE Remove(_, _)
Remove(s, p) ==
    IF s = <<>> THEN <<>>
    ELSE IF StartsWith(s, p) THEN Remove(SubSeq(s, Len(p) + 1, Len(s)), p)
    ELSE <<Head(s)>> \o Remove(Tail(s), p)

\* s.split(c): the parts between the occurrences of the character c
RECURSIVE SplitAcc(_, _, _)
SplitAcc(s, c, cur) ==
    IF s = <<>> THEN <<cur>>
    ELSE IF Head(s) = c THEN <<cur>> \o SplitAcc(Tail(s), c, <<>>)
    ELSE SplitAcc(Tail(s), c, Append(cur, Head(s)))

Split(s, c) == SplitAcc(s, c, <<>>)

(***************************************************************************)
(* int(text) and the C int of time.replace                                 *)
(***************************************************************************)
\* INT_MAX of the C int that datetime.time.replace converts its arguments to
C_INT_MAX == (2 ^ 30 - 1) * 2 + 1

\* acc * 10 + d would pass C_INT_MAX
Over(acc, d, big) == big \/ acc > (C_INT_MAX - d) \div 10

\* The magnitude of a digit string.  Python's int is unbounded; the model keeps a
\* magnitude above C_INT_MAX only as "big", which is all time.replace tells apart.
RECURSIVE DigitsValue(_, _, _)
DigitsValue(s, acc, big) ==
    IF s = <<>> THEN [big |-> big, val |-> acc]
    ELSE IF Head(s) = "_" THEN DigitsValue(Tail(s), acc, big)
    ELSE DigitsValue(Tail(s),
                     IF Over(acc, DigitVal(Head(s)), big) THEN 0
                     ELSE acc * 10 + DigitVal(Head(s)),
                     Over(acc, DigitVal(Head(s)), big))

\* The digits part of an int literal: digits, single underscores between them.
IsIntBody(b) ==
    /\ b # <<>>
    /\ IsDigit(b[1]) /\ IsDigit(b[Len(b)])
    /\ \A i \in 1..Len(b) : IsDigit(b[i]) \/ b[i] = "_"
    /\ \A i \in 1..(Len(b) - 1) : ~(b[i] = "_" /\ b[i + 1] = "_")

\* the int of magnitude m, negated when neg
Signed(m, neg) ==
    [ok |-> TRUE, big |-> m.big,
     val |-> IF m.big THEN 0 ELSE IF neg THEN 0 - m.val ELSE m.val]

IntOfBody(body, neg) ==
    IF ~IsIntBody(body) THEN [ok |-> FALSE, big |-> FALSE, val |-> 0]
    ELSE Signed(DigitsValue(body, 0, FALSE), neg)

\* int(t) of a text without surrounding whitespace: an optional sign, the body
IntOfStripped(t) ==
    IntOfBody(IF t # <<>> /\ Head(t) \in {"+", "-"} THEN Tail(t) ELSE t,
              t # <<>> /\ Head(t) = "-")

\* int(s): [ok] is FALSE for ValueError; [big] says |value| > C_INT_MAX;
\* otherwise val is the value.
ParseInt(s) == IntOfStripped(Strip(s))

IntOf(v) == [ok |-> TRUE, big |-> FALSE, val |-> v]

(***************************************************************************)
(* convert_time_to_iso (discharge_parser_service.py)                       *)
(***************************************************************************)
\* hour += 12 on a parsed int
Plus12(h) ==
    IF h.big \/ h.val > C_INT_MAX - 12 THEN [ok |-> TRUE, big |-> TRUE, val |-> 0]
    ELSE IntOf(h.val + 12)

\* datetime.min.time().replace(hour=, minute=, second=): the arguments are
\* converted to C ints first (OverflowError), then range-checked (ValueError).
TimeReplace(hour, minute, second) ==
    IF hour.big \/ minute.big \/ second.big THEN "OverflowError"
    ELSE IF /\ hour.val \in 0..23
            /\ minute.val \in 0..59
            /\ second.val \in 0..59 THEN "none"
    ELSE "ValueError"

Pad2(n) == <<DigitChars[((n \div 10) % 10) + 1], DigitChars[(n % 10) + 1]>>

Pad4(n) == Pad2(n \div 100) \o Pad2(n % 100)

StrftimeOf(d, h, m, s) ==
    Pad4(d.year) \o <<"-">> \o Pad2(d.month) \o <<"-">> \o Pad2(d.day)
      \o <<"T">> \o Pad2(h) \o <<":">> \o Pad2(m) \o <<":">> \o Pad2(s) \o <<"Z">>

\* datetime.combine(date_obj, time(h, m, s)).strftime("%Y-%m-%dT%H:%M:%SZ")
Strftime(date_obj, h, m, s) == StrftimeOf(FromOrdinal(date_obj), h, m, s)

\* hour, minute, second: int() of the first `used` parts, 0 for the others
TimeInts(parts, used) ==
    [k \in 1..3 |-> IF k <= used THEN ParseInt(parts[k]) ELSE IntOf(0)]

\* The parts the 24-hour branch reads (lines 46-63): two of two, three of
\* three, otherwise the first only (text without ':' is its one part).
Used24(parts) == IF Len(parts) \in {2, 3} THEN Len(parts) ELSE 1

\* The parts the AM/PM branch reads (lines 70-79): the first three at most.
Used12(parts) == IF Len(parts) > 3 THEN 3 ELSE Len(parts)

\* The three ints of the 24-hour branch (lines 46-63); ok is FALSE when an
\* int() raised ValueError.
Parse24(t) == TimeInts(Split(t, ":"), Used24(Split(t, ":")))

\* time_str.replace('AM', '').replace('PM', '').strip() (line 67)
WithoutMarker(t) == Strip(Remove(Remove(t, <<"A", "M">>), <<"P", "M">>))

\* The three ints of the AM/PM branch before the 12-hour conversion (lines 66-79).
Parse12(t) ==
    TimeInts(Split(WithoutMarker(t), ":"), Used12(Split(WithoutMarker(t), ":")))

\* Convert to 24-hour format (lines 82-85)
To24Hour(hour, is_pm) ==
    IF is_pm /\ (hour.big \/ hour.val # 12) THEN Plus12(hour)
    ELSE IF ~is_pm /\ ~hour.big /\ hour.val = 12 THEN IntOf(0)
    ELSE hour

\* 'AM' in time_str or 'PM' in time_str (line 44)
HasMarker(t) == Contains(t, <<"A", "M">>) \/ Contains(t, <<"P", "M">>)

\* the three ints p checked and, in the AM/PM branch, the hour converted
TimeOfInts(p, ok, ampm, is_pm) ==
    [ok |-> ok,
     hour |-> IF ok /\ ampm THEN To24Hour(p[1], is_pm) ELSE p[1],
     minute |-> p[2], second |-> p[3]]

AllOk(p) == p[1].ok /\ p[2].ok /\ p[3].ok

TimeOfText(t, p) == TimeOfInts(p, AllOk(p), HasMarker(t), Contains(t, <<"P", "M">>))

\* the time of the text t = time_str.strip().upper()
TimeOfUpper(t) == TimeOfText(t, IF HasMarker(t) THEN Parse12(t) ELSE Parse24(t))

\* The hour, minute and second that reach time.replace, or ok = FALSE when
\* int() raised ValueError on the way (ints are parsed hour, minute, second in
\* that order and the first failure wins; all failures are ValueError).
ParsedTime(time_str) == TimeOfUpper(Upper(Strip(time_str)))

\* except (ValueError, AttributeError): the default time on the same date
DefaultTime(date_obj) == Strftime(date_obj, 10, 0, 0)

\* what line 88 raises for the parsed time p
Replaced(p) ==
    IF p.ok THEN TimeReplace(p.hour, p.minute, p.second) ELSE "ValueError"

\* the result for the parsed time p when line 88 raised r
Converted(p, r, date_obj) ==
    IF r = "none"
    THEN [exc |-> "none",
          value |-> Strftime(date_obj, p.hour.val, p.minute.val, p.second.val)]
    ELSE IF r = "ValueError"
    THEN [exc |-> "none", value |-> DefaultTime(date_obj)]
    ELSE [exc |-> r, value |-> <<>>]

ConvertParsed(p, date_obj) == Converted(p, Replaced(p), date_obj)

convert_time_to_iso(time_str, date_obj) == ConvertParsed(ParsedTime(time_str), date_obj)

(***************************************************************************)
(* generate_reminders (discharge_parser_service.py)                        *)
(***************************************************************************)
None == <<>>

Some(v) == <<v>>

\* The default timing entry "10:00AM" (line 134)
DefaultTiming == <<"1", "0", ":", "0", "0", "A", "M">>

\* Mutant: the as_needed guard is missing.
SkipsReminders_Never(frequency) == FALSE

\* if frequency == FrequencyEnum.AS_NEEDED: return [] (lines 118-119)
SkipsReminders(frequency) == frequency = "as_needed"

\* Mutant: an absent start_date becomes the invocation date itself.
EffectiveStart_Today(start_date, today) ==
    IF start_date = None THEN today ELSE start_date[1]

\* start_date, defaulted to tomorrow (lines 124-126)
EffectiveStart(start_date, today) ==
    IF start_date = None THEN AddDays(today, 1) ELSE start_date[1]

\* end_date, defaulted to 30 days from the effective start (lines 128-129)
EffectiveEnd(end_date, start) ==
    IF end_date = None THEN AddDays(start, 30) ELSE end_date[1]

\* timing, defaulted to one entry (lines 132-134)
EffectiveTiming(timing) == IF timing = <<>> THEN <<DefaultTiming>> ELSE timing

\* Mutant: the frequency is looked at before the explicit days, and the second
\* weekday of twice_a_week is not wrapped around the week.
DaysToUse_FrequencyFirst(days, frequency, start) ==
    IF frequency = "daily" THEN DayEnumList
    ELSE IF days # <<>> THEN days
    ELSE IF frequency = "twice_a_week"
    THEN <<DayAt(Weekday(start)),
           DayAt(IF Weekday(start) + 3 > 6 THEN 6 ELSE Weekday(start) + 3)>>
    ELSE IF frequency = "weekly" THEN <<DayAt(Weekday(start))>>
    ELSE IF frequency = "alternate_days"
    THEN <<"monday", "wednesday", "friday", "sunday">>
    ELSE DayEnumList

\* days_to_use (lines 137-160); start is the effective start date
DaysToUse(days, frequency, start) ==
    IF days # <<>> THEN days
    ELSE IF frequency = "daily" THEN DayEnumList
    ELSE IF frequency = "twice_a_week"
    THEN <<DayAt(Weekday(start)), DayAt((Weekday(start) + 3) % 7)>>
    ELSE IF frequency = "weekly" THEN <<DayAt(Weekday(start))>>
    ELSE IF frequency = "alternate_days"
    THEN <<"monday", "wednesday", "friday", "sunday">>
    ELSE DayEnumList

\* current_day_enum in days_to_use (line 171)
InList(x, list) == \E i \in 1..Len(list) : list[i] = x

\* Reminder(day=, datte=, time=, isreminded=False, isresponded=False)
Reminder(day, datte, time) ==
    [day |-> day, datte |-> datte, time |-> time,
     isreminded |-> FALSE, isresponded |-> FALSE]

\* Mutant: the reminder is put in front of the list.
AppendReminder_Prepend(reminders, reminder) == <<reminder>> \o reminders

\* reminders.append(reminder) (line 183)
AppendReminder(reminders, reminder) == Append(reminders, reminder)

\* Mutant: the loop runs one day past end_date.
LoopContinues_OneMore(current_date, end_date) == current_date <= end_date + 1

\* while current_date <= end_date (line 166)
LoopContinues(current_date, end_date) == current_date <= end_date

\* for time_str in timing (lines 173-183), from entry i on; an exception
\* of convert_time_to_iso leaves the loop and the function.
RECURSIVE ForTiming(_, _, _, _)
RECURSIVE WithTime(_, _, _, _, _)
ForTiming(i, timing, current_date, reminders) ==
    IF i > Len(timing) THEN [exc |-> "none", value |-> reminders]
    ELSE WithTime(i, timing, current_date, reminders,
                  convert_time_to_iso(timing[i], current_date))

\* the body of the for loop once time_iso is known (lines 175-183)
WithTime(i, timing, current_date, reminders, time_iso) ==
    IF time_iso.exc # "none" THEN [exc |-> time_iso.exc, value |-> <<>>]
    ELSE ForTiming(i + 1, timing, current_date,
                   AppendReminder(reminders,
                       Reminder(DayAt(Weekday(current_date)), current_date,
                                time_iso.value)))

\* The while loop (lines 166-186)
RECURSIVE WhileDates(_, _, _, _, _)
RECURSIVE NextDate(_, _, _, _, _)
WhileDates(current_date, end_date, days_to_use, timing, reminders) ==
    IF ~LoopContinues(current_date, end_date)
    THEN [exc |-> "none", value |-> reminders]
    ELSE IF InList(DayAt(Weekday(current_date)), days_to_use)
    THEN NextDate(current_date, end_date, days_to_use, timing,
                  ForTiming(1, timing, current_date, reminders))
    ELSE WhileDates(AddDays(current_date, 1), end_date, days_to_use, timing, reminders)

\* after the for loop of one date ended with r: on to the next date (line 186)
NextDate(current_date, end_date, days_to_use, timing, r) ==
    IF r.exc # "none" THEN r
    ELSE WhileDates(AddDays(current_date, 1), end_date, days_to_use, timing, r.value)

\* lines 137-186 for the effective start and the effective timing
Expand(days, timing, frequency, start, end_date) ==
    WhileDates(start, EffectiveEnd(end_date, start), DaysToUse(days, frequency, start),
               timing, <<>>)

\* generate_reminders(days, timing, frequency, start_date, end_date), with
\* today = datetime.now().date(): [exc, value] is the exception that left the
\* function ("none" when it returned) and the list returned.
generate_reminders(days, timing, frequency, start_date, end_date, today) ==
    IF SkipsReminders(frequency) THEN [exc |-> "none", value |-> <<>>]
    ELSE Expand(days, EffectiveTiming(timing), frequency,
                EffectiveStart(start_date, today), end_date)

(***************************************************************************)
(* Inputs of the reminder calendar                                         *)
(***************************************************************************)
\* 2024-03-04, a Monday
D0 == ToOrdinal(2024, 3, 4)

\* start_date ranges over every second day of D0 .. D0 + 2 * StartSpan,
\* end_date over every second day of D0 .. D0 + 2 * EndSpan
StartSpan == 2

EndSpan == 4

\* the longest timing and days lists drawn
MaxTiming == 2

MaxDays == 1

StartDates == {None} \cup {Some(D0 + 2 * k) : k \in 0..StartSpan}

EndDates == {None} \cup {Some(D0 + 2 * k) : k \in 0..EndSpan}

\* datetime.now().date() at the call
Todays == {D0 - 2, D0 + 4}

T_830AM == <<"8", ":", "3", "0", "A", "M">>

T_6PM == <<"6", ":", "0", "0", "P", "M">>

\* an hour beyond the C int range
T_HUGE == <<"2", "1", "4", "7", "4", "8", "3", "6", "4", "8">>

TimeTexts == {T_6PM, T_830AM}

SeqsUpTo(S, n) == UNION {[1..k -> S] : k \in 0..n}

TimingInputs ==
    SeqsUpTo(TimeTexts, MaxTiming) \cup {<<T_HUGE>>, <<T_830AM, T_HUGE>>}

\* the weekdays drawn for an explicit days list
ExplicitDays == {"tuesday", "sunday"}

DaysInputs ==
    SeqsUpTo(ExplicitDays, MaxDays) \cup {<<"sunday", "tuesday", "sunday">>}

GrArgs ==
    [days : DaysInputs, timing : TimingInputs, frequency : FrequencyEnum,
     start_date : StartDates, end_date : EndDates]

(***************************************************************************)
(* The medication builder of parse_discharge_summary_with_vision           *)
(***************************************************************************)
\* A value of the parsed JSON: [t, v] with t the JSON type and v the text of
\* a string, the elements of a list, the one number of a number.
JMissing == [t |-> "missing", v |-> <<>>]

JNull == [t |-> "null", v |-> <<>>]

JStr(text) == [t |-> "str", v |-> text]

JNum(n) == [t |-> "num", v |-> <<n>>]

JList(items) == [t |-> "list", v |-> items]

\* bool(value) of a JSON value; a missing key gives None
Truthy(j) ==
    IF j.t = "num" THEN j.v[1] # 0
    ELSE IF j.t \in {"str", "list"} THEN j.v # <<>>
    ELSE IF j.t = "bool" THEN j.v[1]
    ELSE FALSE

LowerOf == [c \in {UpperLetters[i] : i \in 1..26} |->
               LowerLetters[CHOOSE i \in 1..26 : UpperLetters[i] = c]]

\* s.lower()
Lower(s) == [i \in 1..Len(s) |-> IF s[i] \in DOMAIN LowerOf THEN LowerOf[s[i]] ELSE s[i]]

\* the values of FrequencyEnum, DayEnum, MedicationStatus and FollowupStatus
\* as text
EnumText ==
    "daily" :> <<"d", "a", "i", "l", "y">>
    @@ "alternate_days" :> <<"a", "l", "t", "e", "r", "n", "a", "t", "e", "_", "d", "a", "y", "s">>
    @@ "twice_a_week" :> <<"t", "w", "i", "c", "e", "_", "a", "_", "w", "e", "e", "k">>
    @@ "weekly" :> <<"w", "e", "e", "k", "l", "y">>
    @@ "as_needed" :> <<"a", "s", "_", "n", "e", "e", "d", "e", "d">>
    @@ "custom" :> <<"c", "u", "s", "t", "o", "m">>
    @@ "monday" :> <<"m", "o", "n", "d", "a", "y">>
    @@ "tuesday" :> <<"t", "u", "e", "s", "d", "a", "y">>
    @@ "wednesday" :> <<"w", "e", "d", "n", "e", "s", "d", "a", "y">>
    @@ "thursday" :> <<"t", "h", "u", "r", "s", "d", "a", "y">>
    @@ "friday" :> <<"f", "r", "i", "d", "a", "y">>
    @@ "saturday" :> <<"s", "a", "t", "u", "r", "d", "a", "y">>
    @@ "sunday" :> <<"s", "u", "n", "d", "a", "y">>
    @@ "active" :> <<"a", "c", "t", "i", "v", "e">>
    @@ "stopped" :> <<"s", "t", "o", "p", "p", "e", "d">>
    @@ "completed" :> <<"c", "o", "m", "p", "l", "e", "t", "e", "d">>
    @@ "confirmed" :> <<"c", "o", "n", "f", "i", "r", "m", "e", "d">>
    @@ "not_confirmed" :> <<"n", "o", "t", "_", "c", "o", "n", "f", "i", "r", "m", "e", "d">>

MedicationStatus == {"active", "stopped", "completed"}

\* Enum(text): <<member>>, or <<>> for ValueError
EnumLookup(enum, text) ==
    IF \E e \in enum : EnumText[e] = text
    THEN <<CHOOSE e \in enum : EnumText[e] = text>>
    ELSE <<>>

AllDigits(p) == \A i \in 1..Len(p) : IsDigit(p[i])

\* the number a digit string stands for
NumberOf(p) == DigitsValue(p, 0, FALSE).val

\* date(year, month, day): the day must exist
DateOf(year, month, day) ==
    IF year < 1 \/ day > DaysInMonth(year, month) THEN None
    ELSE Some(ToOrdinal(year, month, day))

\* %d also takes a space and a digit
DayDigits(d) == IF Len(d) = 2 /\ d[1] = " " THEN <<d[2]>> ELSE d

\* %Y is four digits, %m one or two digits from 1 to 12, %d one or two digits
\* from 1 to 31
DateOfFields(y, m, d) ==
    IF /\ Len(y) = 4 /\ AllDigits(y)
       /\ Len(m) \in {1, 2} /\ AllDigits(m) /\ NumberOf(m) \in 1..12
       /\ Len(d) \in {1, 2} /\ AllDigits(DayDigits(d)) /\ NumberOf(DayDigits(d)) \in 1..31
    THEN DateOf(NumberOf(y), NumberOf(m), NumberOf(DayDigits(d)))
    ELSE None

DateOfParts(parts) ==
    IF Len(parts) # 3 THEN None ELSE DateOfFields(parts[1], parts[2], parts[3])

\* datetime.strptime(text, "%Y-%m-%d").date(): <<ordinal>>, or <<>> for
\* ValueError.
Strptime(text) == DateOfParts(Split(text, "-"))

\* start_date / end_date (lines 578-590): None unless the value is truthy and
\* strptime accepts it; ValueError and TypeError are passed over
ParseDateField(j) ==
    IF Truthy(j) /\ j.t = "str" THEN Strptime(j.v) ELSE None

\* the member found, or the default after ValueError
MemberOr(found, default) == IF found = <<>> THEN default ELSE found[1]

\* frequency (lines 593-598): value.lower() of a truthy value that is not a
\* string raises AttributeError, which only the outer handler catches
ParseFrequencyField(j) ==
    IF ~Truthy(j) THEN [exc |-> "none", value |-> "daily"]
    ELSE IF j.t # "str" THEN [exc |-> "AttributeError", value |-> "daily"]
    ELSE [exc |-> "none",
          value |-> MemberOr(EnumLookup(FrequencyEnum, Lower(j.v)), "daily")]

\* the elements a for loop takes from a JSON value: those of a list, the
\* characters of a string
Elements(j) ==
    IF j.t = "str" THEN [i \in 1..Len(j.v) |-> JStr(<<j.v[i]>>)] ELSE j.v

\* t.strip() of each entry kept
Stripped(kept) == [i \in 1..Len(kept) |-> Strip(kept[i].v)]

\* timing (lines 601-609): the truthy strings of timing_data, stripped
ParseTimingField(j) ==
    IF ~Truthy(j) THEN [exc |-> "none", value |-> <<>>]
    ELSE IF j.t = "num" THEN [exc |-> "TypeError", value |-> <<>>]
    ELSE [exc |-> "none",
          value |-> Stripped(SelectSeq(Elements(j),
                                       LAMBDA t : t.t = "str" /\ Truthy(t)))]

\* days.append(DayEnum(...)) unless the lookup raised ValueError
AppendDay(days, found) == IF found = <<>> THEN days ELSE Append(days, found[1])

\* days (lines 621-626) from element i on: d.lower() of an element that is not
\* a string raises AttributeError; a name DayEnum does not have is passed over
RECURSIVE DaysFrom(_, _, _)
DaysFrom(i, items, days) ==
    IF i > Len(items) THEN [exc |-> "none", value |-> days]
    ELSE IF items[i].t # "str" THEN [exc |-> "AttributeError", value |-> <<>>]
    ELSE DaysFrom(i + 1, items,
                  AppendDay(days, EnumLookup(DayEnum, Lower(items[i].v))))

\* for d in med_data.get("days", []): null and numbers are not iterable
ParseDaysField(j) ==
    IF j.t = "missing" THEN [exc |-> "none", value |-> <<>>]
    ELSE IF j.t \in {"null", "num"} THEN [exc |-> "TypeError", value |-> <<>>]
    ELSE DaysFrom(1, Elements(j), <<>>)

\* status (lines 628-633)
ParseStatusField(j) ==
    IF ~Truthy(j) THEN [exc |-> "none", value |-> "active"]
    ELSE IF j.t # "str" THEN [exc |-> "AttributeError", value |-> "active"]
    ELSE [exc |-> "none",
          value |-> MemberOr(EnumLookup(MedicationStatus, Lower(j.v)), "active")]

\* Mutant: the call passes the default frequency, not the resolved one.
BuilderReminders_DefaultFrequency(days, timing, frequency, start_date, end_date, today) ==
    generate_reminders(days, timing, "daily", start_date, end_date, today)

\* reminders = generate_reminders(days=, timing=, frequency=, start_date=,
\* end_date=) (lines 636-642)
BuilderReminders(days, timing, frequency, start_date, end_date, today) ==
    generate_reminders(days, timing, frequency, start_date, end_date, today)

Unknown == <<"U", "n", "k", "n", "o", "w", "n">>

\* MedicationDetail(name=med_data.get("name") or "Unknown", ...) (lines
\* 644-654): name must be a string
MedicationDetail(name, start_date, end_date, timing, days, frequency, status_val, reminders) ==
    IF Truthy(name) /\ name.t # "str"
    THEN [exc |-> "ValidationError", value |-> <<>>]
    ELSE [exc |-> "none",
          value |-> <<[name |-> IF Truthy(name) THEN name.v ELSE Unknown,
                       start_date |-> start_date, end_date |-> end_date,
                       timing |-> timing, days |-> days, frequency |-> frequency,
                       status |-> status_val, reminders |-> reminders]>>]

Raise(exc) == [exc |-> exc, value |-> <<>>]

\* lines 644-656 once generate_reminders ended with reminders
BuildDetail(name, start_date, end_date, timing, days, frequency, status_val, reminders) ==
    IF reminders.exc # "none" THEN Raise(reminders.exc)
    ELSE MedicationDetail(name, start_date, end_date, timing, days, frequency,
                          status_val, reminders.value)

\* lines 592-656 for the fields as parsed; the first exception, in the order
\* of the statements, leaves the iteration
BuildFields(med, today, start_date, end_date, frequency, timing, days, status_val) ==
    IF frequency.exc # "none" THEN Raise(frequency.exc)
    ELSE IF timing.exc # "none" THEN Raise(timing.exc)
    \* (med_data.get("name") or "").lower() when timing is empty (line 616)
    ELSE IF timing.value = <<>> /\ Truthy(med.name) /\ med.name.t # "str"
    THEN Raise("AttributeError")
    ELSE IF days.exc # "none" THEN Raise(days.exc)
    ELSE IF status_val.exc # "none" THEN Raise(status_val.exc)
    ELSE BuildDetail(med.name, start_date, end_date, timing.value, days.value,
                     frequency.value, status_val.value,
                     BuilderReminders(days.value, timing.value, frequency.value,
                                      start_date, end_date, today))

\* One iteration of for med_data in parsed_json.get("medications", [])
\* (lines 577-656): [exc, value] is the exception that left the iteration and
\* <<the MedicationDetail appended>>.
build_medication(med, today) ==
    BuildFields(med, today, ParseDateField(med.start_date),
                ParseDateField(med.end_date), ParseFrequencyField(med.frequency),
                ParseTimingField(med.timing), ParseDaysField(med.days),
                ParseStatusField(med.status))

(***************************************************************************)
(* Inputs of the medication builder                                        *)
(***************************************************************************)
DateFields ==
    {JMissing, JNull, JNum(20240305),
     JStr(<<"2", "0", "2", "4", "-", "0", "3", "-", "0", "5">>), JStr(<<"2", "0", "2", "4", "-", "3", "-", "8">>), JStr(<<"2", "0", "2", "4", "-", "0", "2", "-", "3", "0">>)}

FrequencyFields ==
    {JMissing, JNum(2), JStr(<<"D", "a", "i", "l", "y">>), JStr(<<"W", "E", "E", "K", "L", "Y">>), JStr(<<"A", "s", "_", "N", "e", "e", "d", "e", "d">>), JStr(<<"h", "o", "u", "r", "l", "y">>)}

TimingFields ==
    {JMissing,
     JList(<<JStr(<<" ", "8", ":", "3", "0", "A", "M", " ">>), JNull, JStr(<<" ">>)>>),
     JList(<<JStr(T_HUGE)>>),
     JStr(<<"6", "P", "M">>)}

DaysFields ==
    {JMissing, JNull,
     JList(<<JStr(<<"S", "u", "n", "d", "a", "y">>), JStr(<<"f", "u", "n", "d", "a", "y">>)>>),
     JList(<<JStr(<<"t", "u", "e", "s", "d", "a", "y">>)>>),
     JList(<<JNum(1)>>)}

StatusFields == {JMissing, JStr(<<"S", "t", "o", "p", "p", "e", "d">>)}

NameFields == {JMissing, JStr(<<"R", "x">>), JNum(7)}

MedData ==
    [name : NameFields, start_date : DateFields, end_date : DateFields,
     frequency : FrequencyFields, timing : TimingFields, days : DaysFields,
     status : StatusFields]

(***************************************************************************)
(* json.loads, as robust_json_parse uses it                                *)
(*                                                                         *)
(* A parsed value is [t, v] as above; an object is the sequence of its     *)
(* [k, v] items in insertion order.  Positions are those of the text from  *)
(* 1; JSONDecodeError.pos counts from 0.  The texts drawn hold no \u       *)
(* escape and no integer beyond 32 bits.                                   *)
(***************************************************************************)
JBool(b) == [t |-> "bool", v |-> <<b>>]

\* a float, kept as its literal
JFloat(literal) == [t |-> "float", v |-> literal]

JObj(items) == [t |-> "obj", v |-> items]

\* the scanner stopped with an error at position i
Fail(i) == [ok |-> FALSE, v |-> JNull, i |-> i]

\* the scanner read value v and stands at position i
Done(v, i) == [ok |-> TRUE, v |-> v, i |-> i]

\* the least position of the set S; 0 when S is empty
Least(S) == IF S = {} THEN 0 ELSE CHOOSE i \in S : \A j \in S : i <= j

\* the greatest position of the set S; 0 when S is empty
Greatest(S) == IF S = {} THEN 0 ELSE CHOOSE i \in S : \A j \in S : j <= i

\* the first position from i on that holds no whitespace
SkipWs(s, i) ==
    IF i > Len(s) THEN i
    ELSE Least({p \in i..(Len(s) + 1) : p > Len(s) \/ ~IsSpace(s[p])})

\* the word w stands at position i of s
StartsAt(s, i, w) == i + Len(w) - 1 <= Len(s) /\ SubSeq(s, i, i + Len(w) - 1) = w

\* the characters a backslash escape stands for
Escapes ==
    "\"" :> "\"" @@ "\\" :> "\\" @@ "/" :> "/" @@ "n" :> "\n" @@ "t" :> "\t"
    @@ "b" :> "backspace" @@ "f" :> "formfeed" @@ "r" :> "return"

\* scanstring: the string whose opening quote is at begin, read from i on
RECURSIVE ScanString(_, _, _, _)
ScanString(s, begin, i, acc) ==
    IF i > Len(s) THEN Fail(begin)
    ELSE IF s[i] = "\"" THEN Done(JStr(acc), i + 1)
    ELSE IF s[i] = "\\"
    THEN IF i + 1 > Len(s) THEN Fail(begin)
         ELSE IF s[i + 1] \in DOMAIN Escapes
         THEN ScanString(s, begin, i + 2, Append(acc, Escapes[s[i + 1]]))
         ELSE Fail(i)
    ELSE IF s[i] \in {"\n", "\t"} THEN Fail(i)
    ELSE ScanString(s, begin, i + 1, Append(acc, s[i]))

RECURSIVE DigitsEnd(_, _)
DigitsEnd(s, i) == IF i <= Len(s) /\ IsDigit(s[i]) THEN DigitsEnd(s, i + 1) ELSE i

\* the end of the integer part that starts with the digit at d
IntEnd(s, d) == IF s[d] = "0" THEN d + 1 ELSE DigitsEnd(s, d)

\* the end of the fraction, if one starts at j
FracEnd(s, j) ==
    IF j + 1 <= Len(s) /\ s[j] = "." /\ IsDigit(s[j + 1]) THEN DigitsEnd(s, j + 1) ELSE j

\* the end of the exponent, if one starts at j
ExpEnd(s, j) ==
    IF j + 1 <= Len(s) /\ s[j] \in {"e", "E"} /\ IsDigit(s[j + 1])
    THEN DigitsEnd(s, j + 1)
    ELSE IF j + 2 <= Len(s) /\ s[j] \in {"e", "E"} /\ s[j + 1] \in {"+", "-"}
            /\ IsDigit(s[j + 2])
    THEN DigitsEnd(s, j + 2)
    ELSE j

\* the number literal from i to end - 1, its integer part from d to int_end - 1
NumberValue(s, i, d, int_end, end) ==
    IF end # int_end THEN JFloat(SubSeq(s, i, end - 1))
    ELSE IF i # d THEN JNum(0 - NumberOf(SubSeq(s, d, int_end - 1)))
    ELSE JNum(NumberOf(SubSeq(s, d, int_end - 1)))

NumberTo(s, i, d, int_end, end) == Done(NumberValue(s, i, d, int_end, end), end)

\* the number at i whose first digit is at d
ScanNumber(s, i, d) == NumberTo(s, i, d, IntEnd(s, d), ExpEnd(s, FracEnd(s, IntEnd(s, d))))

\* d[key] = value: a key the dict has keeps its place
SetItem(items, k, v) ==
    IF \E n \in 1..Len(items) : items[n].k = k
    THEN [n \in 1..Len(items) |-> IF items[n].k = k THEN [k |-> k, v |-> v] ELSE items[n]]
    ELSE Append(items, [k |-> k, v |-> v])

\* scan_once and the object and array parsers it calls
RECURSIVE ScanOnce(_, _)
RECURSIVE ObjectKey(_, _, _)
RECURSIVE ObjectColon(_, _, _)
RECURSIVE ObjectColonAt(_, _, _, _)
RECURSIVE ObjectValue(_, _, _, _)
RECURSIVE ObjectNext(_, _, _)
RECURSIVE ArrayValue(_, _, _)
RECURSIVE ArrayNext(_, _, _)
\* the object whose brace is passed: i is the first position after whitespace
ObjectBody(s, i) ==
    IF i <= Len(s) /\ s[i] = "}" THEN Done(JObj(<<>>), i + 1)
    ELSE ObjectKey(s, i, <<>>)

\* a property name in double quotes is expected at i
ObjectKey(s, i, items) ==
    IF i > Len(s) \/ s[i] # "\"" THEN Fail(i)
    ELSE ObjectColon(s, items, ScanString(s, i, i + 1, <<>>))

ObjectColon(s, items, key) ==
    IF ~key.ok THEN key ELSE ObjectColonAt(s, items, key.v.v, SkipWs(s, key.i))

\* ':' is expected at i
ObjectColonAt(s, items, k, i) ==
    IF i > Len(s) \/ s[i] # ":" THEN Fail(i)
    ELSE ObjectValue(s, items, k, ScanOnce(s, SkipWs(s, i + 1)))

ObjectValue(s, items, k, val) ==
    IF ~val.ok THEN val ELSE ObjectNext(s, SetItem(items, k, val.v), SkipWs(s, val.i))

\* '}' or ',' is expected at i
ObjectNext(s, items, i) ==
    IF i <= Len(s) /\ s[i] = "}" THEN Done(JObj(items), i + 1)
    ELSE IF i > Len(s) \/ s[i] # "," THEN Fail(i)
    ELSE ObjectKey(s, SkipWs(s, i + 1), items)

\* the array whose bracket is passed: i is the first position after whitespace
ArrayBody(s, i) ==
    IF i <= Len(s) /\ s[i] = "]" THEN Done(JList(<<>>), i + 1)
    ELSE ArrayValue(s, <<>>, ScanOnce(s, i))

ArrayValue(s, items, val) ==
    IF ~val.ok THEN val ELSE ArrayNext(s, Append(items, val.v), SkipWs(s, val.i))

\* ']' or ',' is expected at i
ArrayNext(s, items, i) ==
    IF i <= Len(s) /\ s[i] = "]" THEN Done(JList(items), i + 1)
    ELSE IF i > Len(s) \/ s[i] # "," THEN Fail(i)
    ELSE ArrayValue(s, items, ScanOnce(s, SkipWs(s, i + 1)))

\* the value that starts at i ("Expecting value" at i otherwise)
ScanOnce(s, i) ==
    IF i > Len(s) THEN Fail(i)
    ELSE IF s[i] = "\"" THEN ScanString(s, i, i + 1, <<>>)
    ELSE IF s[i] = "{" THEN ObjectBody(s, SkipWs(s, i + 1))
    ELSE IF s[i] = "[" THEN ArrayBody(s, SkipWs(s, i + 1))
    ELSE IF StartsAt(s, i, <<"n", "u", "l", "l">>) THEN Done(JNull, i + 4)
    ELSE IF StartsAt(s, i, <<"t", "r", "u", "e">>) THEN Done(JBool(TRUE), i + 4)
    ELSE IF StartsAt(s, i, <<"f", "a", "l", "s", "e">>) THEN Done(JBool(FALSE), i + 5)
    ELSE IF IsDigit(s[i]) THEN ScanNumber(s, i, i)
    ELSE IF s[i] = "-" /\ i + 1 <= Len(s) /\ IsDigit(s[i + 1]) THEN ScanNumber(s, i, i + 1)
    ELSE IF StartsAt(s, i, <<"N", "a", "N">>) THEN Done(JFloat(SubSeq(s, i, i + 2)), i + 3)
    ELSE IF StartsAt(s, i, <<"I", "n", "f", "i", "n", "i", "t", "y">>)
    THEN Done(JFloat(SubSeq(s, i, i + 7)), i + 8)
    ELSE IF StartsAt(s, i, <<"-", "I", "n", "f", "i", "n", "i", "t", "y">>)
    THEN Done(JFloat(SubSeq(s, i, i + 8)), i + 9)
    ELSE Fail(i)

\* the outcome of json.loads: the value, or JSONDecodeError with its pos
Decoded(v) == [ok |-> TRUE, v |-> v, pos |-> 0]

DecodeError(i) == [ok |-> FALSE, v |-> JNull, pos |-> i - 1]

\* "Extra data" when text is left at position end after the value
WholeText(s, r, end) == IF end <= Len(s) THEN DecodeError(end) ELSE Decoded(r.v)

Decode(s, r) == IF ~r.ok THEN DecodeError(r.i) ELSE WholeText(s, r, SkipWs(s, r.i))

json_loads(s) == Decode(s, ScanOnce(s, SkipWs(s, 1)))

(***************************************************************************)
(* robust_json_parse (discharge_parser_service.py)                         *)
(***************************************************************************)
\* the character U+0060, which a TLA+ string cannot hold
Backtick == "backtick"

Backticks == <<Backtick, Backtick, Backtick>>

\* ^ with re.MULTILINE
AtLineStart(s, i) == i = 1 \/ s[i - 1] = "\n"

\* the position after (?:json|JSON)? at i
AfterJsonWord(s, i) ==
    IF StartsAt(s, i, <<"j", "s", "o", "n">>) \/ StartsAt(s, i, <<"J", "S", "O", "N">>)
    THEN i + 4 ELSE i

\* where ^```(?:json|JSON)?\s*\n? ends when it starts at i; 0 when it does not
\* match
OpeningFenceEnd(s, i) ==
    IF AtLineStart(s, i) /\ StartsAt(s, i, Backticks)
    THEN SkipWs(s, AfterJsonWord(s, i + 3)) ELSE 0

\* re.sub(r'^```(?:json|JSON)?\s*\n?', '', text, flags=re.MULTILINE) (line 328),
\* from position p on
RECURSIVE StripOpeningFences(_, _)
RECURSIVE OpeningFencesFrom(_, _, _)
StripOpeningFences(s, p) ==
    OpeningFencesFrom(s, p, Least({i \in p..Len(s) : OpeningFenceEnd(s, i) # 0}))

\* the text from p on whose next match starts at i
OpeningFencesFrom(s, p, i) ==
    IF i = 0 THEN SubSeq(s, p, Len(s))
    ELSE SubSeq(s, p, i - 1) \o StripOpeningFences(s, OpeningFenceEnd(s, i))

\* where \s*$ ends when it starts at q and the whitespace ends at p: the last
\* position of q..p that is the end of the text or holds a newline; 0 when
\* there is none
LineEndFrom(s, p, q) == Greatest({x \in q..p : x > Len(s) \/ s[x] = "\n"})

\* where ```\s*$ ends when it starts at i; 0 when it does not match
ClosingFenceEnd(s, i) ==
    IF StartsAt(s, i, Backticks) THEN LineEndFrom(s, SkipWs(s, i + 3), i + 3) ELSE 0

\* where \n?```\s*$ ends when it starts at i; 0 when it does not match
FenceMatchEnd(s, i) ==
    IF s[i] = "\n" /\ ClosingFenceEnd(s, i + 1) # 0 THEN ClosingFenceEnd(s, i + 1)
    ELSE ClosingFenceEnd(s, i)

\* re.sub(r'\n?```\s*$', '', text, flags=re.MULTILINE) (line 329), from p on
RECURSIVE StripClosingFences(_, _)
RECURSIVE ClosingFencesFrom(_, _, _)
StripClosingFences(s, p) ==
    ClosingFencesFrom(s, p, Least({i \in p..Len(s) : FenceMatchEnd(s, i) # 0}))

ClosingFencesFrom(s, p, i) ==
    IF i = 0 THEN SubSeq(s, p, Len(s))
    ELSE SubSeq(s, p, i - 1) \o StripClosingFences(s, FenceMatchEnd(s, i))

\* the first position from i on that holds c; 0 when there is none
Find(s, c, i) == Least({p \in i..Len(s) : s[p] = c})

\* the last position up to i that holds c; 0 when there is none
RFind(s, c, i) == Greatest({p \in 1..i : s[p] = c})

BraceSpan(s, first, last) ==
    IF first # 0 /\ last > first THEN SubSeq(s, first, last) ELSE s

\* re.search(r'\{.*\}', text, re.DOTALL): first { to last } (lines 333-335)
ExtractObject(s) == BraceSpan(s, Find(s, "{", 1), RFind(s, "}", Len(s)))

\* ,(\s*[}\]]) matches at i
TrailingComma(s, i) ==
    /\ s[i] = ","
    /\ SkipWs(s, i + 1) <= Len(s)
    /\ s[SkipWs(s, i + 1)] \in {"}", "]"}

\* the characters of s at the positions listed
CharsAt(s, positions) == [n \in 1..Len(positions) |-> s[positions[n]]]

\* re.sub(r',(\s*[}\]])', r'\1', text) (lines 339, 355, 384, 413): the match
\* keeps everything but its comma
FixTrailingCommas(s) ==
    CharsAt(s, SelectSeq([i \in 1..Len(s) |-> i], LAMBDA i : ~TrailingComma(s, i)))

\* the end of the line position i is in
LineEnd(s, i) == IF Find(s, "\n", i) = 0 THEN Len(s) + 1 ELSE Find(s, "\n", i)

\* re.sub(r'//.*?$', '', text, flags=re.MULTILINE) (line 342), from p on
RECURSIVE StripLineComments(_, _)
RECURSIVE LineCommentsFrom(_, _, _)
StripLineComments(s, p) ==
    LineCommentsFrom(s, p, Least({i \in p..Len(s) : StartsAt(s, i, <<"/", "/">>)}))

LineCommentsFrom(s, p, i) ==
    IF i = 0 THEN SubSeq(s, p, Len(s))
    ELSE SubSeq(s, p, i - 1) \o StripLineComments(s, LineEnd(s, i + 2))

\* the first position from i on where the word w stands; 0 when there is none
FindWord(s, w, i) == Least({p \in i..Len(s) : StartsAt(s, p, w)})

\* where /\*.*?\*/ ends when it starts at i; 0 when it does not match
BlockCommentEnd(s, i) ==
    IF StartsAt(s, i, <<"/", "*">>) /\ FindWord(s, <<"*", "/">>, i + 2) # 0
    THEN FindWord(s, <<"*", "/">>, i + 2) + 2 ELSE 0

\* re.sub(r'/\*.*?\*/', '', text, flags=re.DOTALL) (line 345), from p on
RECURSIVE StripBlockComments(_, _)
RECURSIVE BlockCommentsFrom(_, _, _)
StripBlockComments(s, p) ==
    BlockCommentsFrom(s, p, Least({i \in p..Len(s) : BlockCommentEnd(s, i) # 0}))

BlockCommentsFrom(s, p, i) ==
    IF i = 0 THEN SubSeq(s, p, Len(s))
    ELSE SubSeq(s, p, i - 1) \o StripBlockComments(s, BlockCommentEnd(s, i))

\* Strategy 1 (lines 328-330)
Unfenced(s) == Strip(StripClosingFences(StripOpeningFences(s, 1), 1))

\* Strategies 3 to 5 (lines 339-345)
Uncommented(s) ==
    StripBlockComments(StripLineComments(FixTrailingCommas(s), 1), 1)

\* text after strategies 1 to 5 (lines 324-345)
Cleaned(original_text) == Uncommented(ExtractObject(Unfenced(original_text)))

\* attempt_text[first_brace:] if first_brace > 0 (lines 374-376)
FromFirstBrace(s) ==
    IF Find(s, "{", 1) > 1 THEN SubSeq(s, Find(s, "{", 1), Len(s)) ELSE s

\* attempt_text[:last_brace + 1] if 0 < last_brace < len - 1 (lines 379-381)
ToLastBrace(s) ==
    IF RFind(s, "}", Len(s)) > 1 /\ RFind(s, "}", Len(s)) < Len(s)
    THEN SubSeq(s, 1, RFind(s, "}", Len(s))) ELSE s

\* the text strategy 7 parses (lines 371-384)
Strategy7Text(text) == FixTrailingCommas(ToLastBrace(FromFirstBrace(text)))

\* re.sub(r"'([^']*)'", r'"\1"', text) (line 410), from p on
RECURSIVE FixQuotes(_, _)
RECURSIVE QuotesFrom(_, _, _)
FixQuotes(s, p) ==
    QuotesFrom(s, p, Least({i \in p..Len(s) : s[i] = "'" /\ Find(s, "'", i + 1) # 0}))

\* the text from p on whose next quoted word starts at i
QuotesFrom(s, p, i) ==
    IF i = 0 THEN SubSeq(s, p, Len(s))
    ELSE SubSeq(s, p, i - 1) \o <<"\"">> \o SubSeq(s, i + 1, Find(s, "'", i + 1) - 1)
           \o <<"\"">> \o FixQuotes(s, Find(s, "'", i + 1) + 1)

\* the text strategy 8 parses (lines 396-413)
Strategy8Text(text) ==
    FixTrailingCommas(FixQuotes(ToLastBrace(FromFirstBrace(text)), 1))

\* the names and texts of the attempts list (lines 352-356)
AttemptNames ==
    <<"Cleaned text", "Original text", "Text with trailing comma fix">>

AttemptTexts(text, original_text) ==
    <<text, original_text, FixTrailingCommas(original_text)>>

Max(a, b) == IF a > b THEN a ELSE b

Min(a, b) == IF a < b THEN a ELSE b

\* text[max(0, pos - 50):min(len(text), pos + 50)], added to the message
\* if e.pos is truthy (lines 433-436)
ErrorWindow(text, pos) ==
    IF pos # 0 THEN Some(SubSeq(text, Max(0, pos - 50) + 1, Min(Len(text), pos + 50)))
    ELSE None

(***************************************************************************)
(* The JSON of the answer in parse_bill_with_vision and                    *)
(* parse_report_with_vision                                                *)
(***************************************************************************)
\* s.split(fence)[1] for a text s that starts with the fence: what stands
\* between the first fence and the next one at j, or the end of the text
AfterFirstFence(s, j) ==
    IF j = 0 THEN SubSeq(s, Len(Backticks) + 1, Len(s))
    ELSE SubSeq(s, Len(Backticks) + 1, j - 1)

JsonWord == <<"j", "s", "o", "n">>

\* if response_text.startswith("json"): response_text = response_text[4:]
WithoutJsonWord(s) ==
    IF StartsWith(s, JsonWord) THEN SubSeq(s, Len(JsonWord) + 1, Len(s)) ELSE s

\* Remove markdown code blocks if present (bill_parser_service.py 175-179,
\* report_parser_service.py 184-188)
WithoutFence(response_text) ==
    IF StartsWith(response_text, Backticks)
    THEN Strip(WithoutJsonWord(AfterFirstFence(response_text,
                                 FindWord(response_text, Backticks, Len(Backticks) + 1))))
    ELSE response_text

\* what the try block ends with: the value parsed, or the HTTPException raised
\* for JSONDecodeError
ParsedOrRaised(parsed) ==
    IF parsed.ok THEN [kind |-> "returned", value |-> parsed.v]
    ELSE [kind |-> "raised", value |-> JNull]

\* parse_bill_with_vision, lines 172-190
parse_bill_json(response_text) == ParsedOrRaised(json_loads(WithoutFence(response_text)))

\* parse_report_with_vision, lines 181-199
parse_report_json(response_text) == ParsedOrRaised(json_loads(WithoutFence(response_text)))

(***************************************************************************)
(* The followup loop of parse_discharge_summary_with_vision                *)
(***************************************************************************)
\* FollowupStatus (schemas/patients.py)
FollowupStatus == {"confirmed", "not_confirmed"}

\* the texts pydantic takes for a bool, whatever their case
FalseTexts == {<<"0">>, <<"o", "f", "f">>, <<"f">>, <<"f", "a", "l", "s", "e">>, <<"n">>, <<"n", "o">>}

TrueTexts == {<<"1">>, <<"o", "n">>, <<"t">>, <<"t", "r", "u", "e">>, <<"y">>, <<"y", "e", "s">>}

\* a field declared bool, given the value passed: [exc, value]; a bool is
\* taken, 0, 1 and the texts above are converted, None and every other value
\* fail the validation
BoolField(j) ==
    IF j.t = "bool" THEN [exc |-> "none", value |-> j.v[1]]
    ELSE IF j.t = "num" /\ j.v[1] \in {0, 1} THEN [exc |-> "none", value |-> j.v[1] = 1]
    ELSE IF j.t = "str" /\ Lower(j.v) \in FalseTexts THEN [exc |-> "none", value |-> FALSE]
    ELSE IF j.t = "str" /\ Lower(j.v) \in TrueTexts THEN [exc |-> "none", value |-> TRUE]
    ELSE [exc |-> "ValidationError", value |-> FALSE]

\* followup_data.get(key, False)
GetOrFalse(j) == IF j.t = "missing" THEN [t |-> "bool", v |-> <<FALSE>>] ELSE j

\* Followup(followup_date=, reason=, notes=, isreminder1sent=,
\* isreminder2sent=, status=) (lines 689-696): reason and notes are not
\* fields of the model (schemas/patients.py 13-19) and are ignored;
\* [exc, value]
Followup(followup_date, reason, notes, isreminder1sent, isreminder2sent, status_val) ==
    IF isreminder1sent.exc # "none" THEN Raise(isreminder1sent.exc)
    ELSE IF isreminder2sent.exc # "none" THEN Raise(isreminder2sent.exc)
    ELSE [exc |-> "none",
          value |-> <<[followup_date |-> followup_date,
                       isreminder1sent |-> isreminder1sent.value,
                       isreminder2sent |-> isreminder2sent.value,
                       status |-> status_val]>>]

\* status (lines 682-687): value.lower() of a truthy value that is not a
\* string raises AttributeError, which except ValueError does not catch
ParseFollowupStatus(j) ==
    IF ~Truthy(j) THEN [exc |-> "none", value |-> "not_confirmed"]
    ELSE IF j.t # "str" THEN [exc |-> "AttributeError", value |-> "not_confirmed"]
    ELSE [exc |-> "none",
          value |-> MemberOr(EnumLookup(FollowupStatus, Lower(j.v)), "not_confirmed")]

\* followup_date (lines 671-680): [skip, value]; continue after ValueError
\* and TypeError, continue if the date is still None
ParseFollowupDate(j) ==
    IF ~Truthy(j) \/ j.t # "str" THEN None ELSE Strptime(j.v)

\* the try block of lines 670-697 once the date is parsed
FollowupWith(followup_data, followup_date, status_val) ==
    IF followup_date = None THEN [exc |-> "none", value |-> <<>>]
    ELSE IF status_val.exc # "none" THEN Raise(status_val.exc)
    ELSE Followup(followup_date[1], followup_data.reason, followup_data.notes,
                  BoolField(GetOrFalse(followup_data.isreminder1sent)),
                  BoolField(GetOrFalse(followup_data.isreminder2sent)), status_val.value)

\* The try block of one iteration (lines 670-697): [exc, value] with value
\* <<the Followup to append>> or <<>>.  An entry that is not an object has no
\* get and raises AttributeError.
TryFollowup(followup_data) ==
    IF ~followup_data.is_dict THEN Raise("AttributeError")
    ELSE FollowupWith(followup_data, ParseFollowupDate(followup_data.followup_date),
                      ParseFollowupStatus(followup_data.status))

\* One iteration with its handler (lines 669-700): except Exception logs and
\* continues, so what is appended is <<>> whenever the try block raised.
build_followup(followup_data) == TryFollowup(followup_data).value

(***************************************************************************)
(* Inputs of the followup loop                                             *)
(***************************************************************************)
MaxFollowups == 2

FollowupDateFields ==
    {JMissing, JNum(20240401),
     JStr(<<"2", "0", "2", "4", "-", "0", "4", "-", "0", "1">>),
     JStr(<<"2", "0", "2", "4", "-", "3", "-", "8">>),
     JStr(<<"2", "0", "2", "4", "-", "0", "2", "-", "3", "0">>)}

FollowupStatusFields ==
    {JMissing, JStr(<<"C", "o", "n", "f", "i", "r", "m", "e", "d">>),
     JStr(<<"m", "a", "y", "b", "e">>), JNum(1)}

FlagFields == {JMissing, JNull}

\* an entry that is a string, not an object
E_TEXT ==
    [is_dict |-> FALSE, followup_date |-> JMissing, reason |-> JMissing,
     notes |-> JMissing, status |-> JMissing, isreminder1sent |-> JMissing,
     isreminder2sent |-> JMissing]

\* an entry with a reason, notes and its flags set
E_SENT ==
    [is_dict |-> TRUE,
     followup_date |-> JStr(<<"2", "0", "2", "4", "-", "0", "4", "-", "0", "1">>),
     reason |-> JStr(<<"c", "h", "e", "c", "k", "u", "p">>),
     notes |-> JStr(<<"f", "a", "s", "t", "i", "n", "g">>),
     status |-> JMissing, isreminder1sent |-> [t |-> "bool", v |-> <<TRUE>>],
     isreminder2sent |-> JStr(<<"Y", "e", "s">>)]

FollowupEntries ==
    [is_dict : {TRUE}, followup_date : FollowupDateFields, reason : {JMissing},
     notes : {JMissing}, status : FollowupStatusFields, isreminder1sent : FlagFields,
     isreminder2sent : {JMissing}]
      \cup {E_TEXT, E_SENT}

FollowupLists == UNION {[1..n -> FollowupEntries] : n \in 0..MaxFollowups}

(***************************************************************************)
(* create_patient (patient_service.py)                                     *)
(*                                                                         *)
(* A Python value is [t, v] as a JSON value is, with dates as a type of    *)
(* their own; a dict is the sequence of its [k, v] items.                  *)
(***************************************************************************)
PyDate(d) == [t |-> "date", v |-> <<d>>]

IsoformatOf(d) == Pad4(d.year) \o <<"-">> \o Pad2(d.month) \o <<"-">> \o Pad2(d.day)

\* date.isoformat()
Isoformat(d) == IsoformatOf(FromOrdinal(d))

\* item.isoformat() if isinstance(item, (date, datetime)) else item (line 18)
SerializedItem(item) == IF item.t = "date" THEN JStr(Isoformat(item.v[1])) ELSE item

\* what data[key] is after the loop body of lines 14-20: a date is converted,
\* the items of a list are, any other value is left as it is
SerializedValue(value) ==
    IF value.t = "date" THEN JStr(Isoformat(value.v[1]))
    ELSE IF value.t = "list"
    THEN JList([i \in 1..Len(value.v) |-> SerializedItem(value.v[i])])
    ELSE value

\* serialize_dates_for_mongodb(data) (lines 11-21)
serialize_dates_for_mongodb(data) ==
    JObj([i \in 1..Len(data.v) |-> [k |-> data.v[i].k, v |-> SerializedValue(data.v[i].v)]])

\* Followup.model_dump(): the date stays a date, the status its enum member
DumpedFollowup(followup) ==
    JObj(<<[k |-> "followup_date", v |-> PyDate(followup.followup_date)],
           [k |-> "isreminder1sent", v |-> JBool(followup.isreminder1sent)],
           [k |-> "isreminder2sent", v |-> JBool(followup.isreminder2sent)],
           [k |-> "status", v |-> JStr(EnumText[followup.status])]>>)

\* an Optional[date] field as dumped
DumpedOptionalDate(d) == IF d = None THEN JNull ELSE PyDate(d[1])

\* patient.model_dump() (line 30), for the fields that can hold a date
model_dump(patient) ==
    JObj(<<[k |-> "admission_date", v |-> PyDate(patient.admission_date)],
           [k |-> "discharge_date", v |-> DumpedOptionalDate(patient.discharge_date)],
           [k |-> "bill_details", v |-> JList(patient.bill_details)],
           [k |-> "appointment_followup",
            v |-> JList([i \in 1..Len(patient.appointment_followup) |->
                           DumpedFollowup(patient.appointment_followup[i])])]>>)

\* defaults (lines 34-43), for the same fields
Defaults == [bill_details |-> JList(<<>>), appointment_followup |-> JStr(<<>>)]

\* if patient_dict.get(key) is None: patient_dict[key] = default_value
WithDefault(item) ==
    IF item.k \in DOMAIN Defaults /\ item.v = JNull
    THEN [k |-> item.k, v |-> Defaults[item.k]] ELSE item

\* lines 45-48
WithDefaults(patient_dict) ==
    JObj([i \in 1..Len(patient_dict.v) |-> WithDefault(patient_dict.v[i])])

(***************************************************************************)
(* Inputs of create_patient                                                *)
(***************************************************************************)
\* the longest bill_details and appointment_followup lists stored
MaxStored == 2

StoredFollowups ==
    [followup_date : {D0, D0 + 28}, isreminder1sent : {FALSE}, isreminder2sent : {FALSE},
     status : FollowupStatus]

\* bill_details is List[Any]: texts and dates
StoredBillItems == {JStr(<<"b", "i", "l", "l">>), PyDate(D0)}

Patients ==
    [admission_date : {D0 - 2}, discharge_date : {None, Some(D0)},
     bill_details : SeqsUpTo(StoredBillItems, MaxStored),
     appointment_followup : SeqsUpTo(StoredFollowups, MaxStored)]

(***************************************************************************)
(* State                                                                   *)
(***************************************************************************)
VARIABLES
    gr_pc,      \* generate_reminders: "idle", "ready", "returned" or "raised"
    gr_args,    \* its arguments
    gr_locals,  \* its locals after the defaults: today, start_date, end_date,
                \* timing, days_to_use
    gr_result,  \* the list it returned
    \* create_patient_endpoint (api/v1/patients.py)
    request,    \* the uploaded form: contacts_ok, discharge_summary_pdf,
                \* medication_details, bill_details, reports
    pc,         \* the statement the handler is at
    idx,        \* position of the current document in its batch (from 1)
    medication_details_dict,
    bills_list,
    bill_url,
    parsed_bill,
    reports_list,
    report_url,
    parsed_report,
    outcome,    \* how each iteration ended so far: [bill, report], in input order,
                \* and how the discharge summary and the certificate ended:
                \* [discharge, certificate], "" before
    response,   \* the HTTP status answered, 0 while the handler runs
    \* the medication builder
    mb_pc,      \* "idle", "ready", "built" or "raised"
    med_data,   \* the entry of parsed_json["medications"]
    mb_today,   \* datetime.now().date() during the iteration
    medication, \* <<the MedicationDetail built>>
    \* convert_time_to_iso
    ct_pc,      \* "idle", "ready", "returned" or "raised"
    time_str,   \* the time text passed
    date_obj,   \* the date passed
    ct_result,  \* the timestamp returned
    \* robust_json_parse
    rj_pc,      \* "idle", "ready", "attempts", "strategy7", "strategy8",
                \* "failing", "returned" or "raised"
    rj_parts,   \* what the text passed is made of
    original_text,
    text,       \* the cleaned text
    attempts_failed, \* the names of the attempts that raised JSONDecodeError
    rj_result,  \* what the call returned or raised
    \* the followup loop
    fu_pc,      \* "idle", "loop" or "done"
    followup_data_list, \* parsed_json["appointment_followup"]
    fu_idx,     \* position of the entry the loop is at (from 1)
    appointment_followups, \* the Followups appended so far
    \* the JSON of the answer in the bill and report parsers
    bill_json,  \* [kind, value]: "idle", "ready", "returned" or "raised"
    report_json,
    \* create_patient
    cp_pc,      \* "idle", "ready", "dumped", "serialized", "inserted" or "raised"
    patient,    \* the PatientCreate passed: its fields that can hold a date
    patient_dict \* the mapping built for the record store

gr_vars == <<gr_pc, gr_args, gr_locals, gr_result>>

ep_vars ==
    <<request, pc, idx, medication_details_dict, bills_list, bill_url, parsed_bill,
      reports_list, report_url, parsed_report, outcome, response>>

mb_vars == <<mb_pc, med_data, mb_today, medication>>

ct_vars == <<ct_pc, time_str, date_obj, ct_result>>

\* the functions studied on their own
rj_vars == <<rj_pc, rj_parts, original_text, text, attempts_failed, rj_result>>

fu_vars == <<fu_pc, followup_data_list, fu_idx, appointment_followups>>

bx_vars == <<bill_json, report_json>>

cp_vars == <<cp_pc, patient, patient_dict>>

fn_vars == <<ct_vars, rj_vars, fu_vars, bx_vars, cp_vars>>

vars == <<gr_vars, ep_vars, mb_vars, fn_vars>>

NoLocals ==
    [today |-> D0, start_date |-> D0, end_date |-> D0, timing |-> <<>>,
     days_to_use |-> <<>>]

GrInit ==
    /\ gr_pc = "ready"
    /\ gr_args \in GrArgs
    /\ gr_locals = NoLocals
    /\ gr_result = <<>>

\* generate_reminders is not under study
GrIdle ==
    /\ gr_pc = "idle"
    /\ gr_args = [days |-> <<>>, timing |-> <<>>, frequency |-> "as_needed",
                  start_date |-> None, end_date |-> None]
    /\ gr_locals = NoLocals
    /\ gr_result = <<>>

\* the locals of a call with arguments a after the defaults
LocalsOf(a, today, start) ==
    IF SkipsReminders(a.frequency) THEN [NoLocals EXCEPT !.today = today]
    ELSE [today |-> today, start_date |-> start,
          end_date |-> EffectiveEnd(a.end_date, start),
          timing |-> EffectiveTiming(a.timing),
          days_to_use |-> DaysToUse(a.days, a.frequency, start)]

\* the call with arguments a ends with r
Ends(a, today, r) ==
    /\ gr_pc' = IF r.exc = "none" THEN "returned" ELSE "raised"
    /\ gr_result' = r.value
    /\ gr_locals' = LocalsOf(a, today, EffectiveStart(a.start_date, today))

\* One call of generate_reminders.
GenerateReminders ==
    /\ gr_pc = "ready"
    /\ \E today \in Todays :
         Ends(gr_args, today,
              generate_reminders(gr_args.days, gr_args.timing, gr_args.frequency,
                                 gr_args.start_date, gr_args.end_date, today))
    /\ UNCHANGED <<gr_args, ep_vars, mb_vars, fn_vars>>

MbInit ==
    /\ mb_pc = "ready"
    /\ med_data \in MedData
    /\ mb_today \in Todays
    /\ medication = <<>>

\* the medication builder is not under study
MbIdle ==
    /\ mb_pc = "idle"
    /\ med_data = [name |-> JMissing, start_date |-> JMissing, end_date |-> JMissing,
                   frequency |-> JMissing, timing |-> JMissing, days |-> JMissing,
                   status |-> JMissing]
    /\ mb_today = D0
    /\ medication = <<>>

\* the iteration ends with r
Built(r) ==
    /\ mb_pc' = IF r.exc = "none" THEN "built" ELSE "raised"
    /\ medication' = r.value

\* One iteration of the medication loop.
BuildMedication ==
    /\ mb_pc = "ready"
    /\ Built(build_medication(med_data, mb_today))
    /\ UNCHANGED <<med_data, mb_today, gr_vars, ep_vars, fn_vars>>

(***************************************************************************)
(* convert_time_to_iso called on its own                                   *)
(***************************************************************************)
HourTexts == {<<"0">>, <<"6">>, <<"1", "2">>, <<"1", "3">>, <<"2", "3">>, <<"2", "4">>}

MinuteTexts ==
    {<<>>, <<":", "0", "0">>, <<":", "3", "0">>, <<":", "0", "5", ":", "0", "9">>,
     <<":", "6", "0">>}

MarkerTexts == {<<>>, <<"A", "M">>, <<"P", "M">>, <<" ", "p", "m", " ">>}

\* texts that are not a time
OddTimeTexts ==
    {<<>>, <<"g", "a", "r", "b", "a", "g", "e">>, T_HUGE,
     <<"1", ":", "2", ":", "3", ":", "4">>, <<"-", "1">>, <<"n", "o", "o", "n", " ", "P", "M">>}

CtTexts ==
    {h \o m \o k : h \in HourTexts, m \in MinuteTexts, k \in MarkerTexts}
      \cup OddTimeTexts

CtDates == {D0, ToOrdinal(2024, 2, 29), ToOrdinal(1999, 12, 31)}

CtInit ==
    /\ ct_pc = "ready"
    /\ time_str \in CtTexts
    /\ date_obj \in CtDates
    /\ ct_result = <<>>

\* convert_time_to_iso is not under study
CtIdle ==
    /\ ct_pc = "idle"
    /\ time_str = <<>>
    /\ date_obj = D0
    /\ ct_result = <<>>

\* the call ends with r
CtEnds(r) ==
    /\ ct_pc' = IF r.exc = "none" THEN "returned" ELSE "raised"
    /\ ct_result' = r.value

\* One call of convert_time_to_iso.
ConvertTimeToIso ==
    /\ ct_pc = "ready"
    /\ CtEnds(convert_time_to_iso(time_str, date_obj))
    /\ UNCHANGED <<time_str, date_obj, rj_vars, fu_vars, bx_vars, cp_vars, gr_vars, ep_vars,
                   mb_vars>>

(***************************************************************************)
(* robust_json_parse called on its own                                     *)
(***************************************************************************)
\* A document is the text [json] and the same text with trailing commas
\* before its closing braces and brackets, [loose].
\* a small object
D_SIMPLE ==
    [json |-> <<"{", "\"", "a", "\"", ":", " ", "1", "}">>,
     loose |-> <<"{", "\"", "a", "\"", ":", " ", "1", ",", "}">>]

\* nested lists and objects
D_NESTED ==
    [json |-> <<"{", "\"", "m", "\"", ":", " ", "[", "{", "\"", "n", "\"", ":", " ", "\"", "x", "\"", ",", " ", "\"", "d", "\"", ":", " ", "[", "\"", "m", "o", "n", "\"", "]", "}", "]", ",", " ", "\"", "p", "\"", ":", " ", "n", "u", "l", "l", "}">>,
     loose |-> <<"{", "\"", "m", "\"", ":", " ", "[", "{", "\"", "n", "\"", ":", " ", "\"", "x", "\"", ",", " ", "\"", "d", "\"", ":", " ", "[", "\"", "m", "o", "n", "\"", ",", "]", ",", "}", ",", "]", ",", " ", "\"", "p", "\"", ":", " ", "n", "u", "l", "l", " ", ",", "\n", "}">>]

\* a string that holds //
D_URL ==
    [json |-> <<"{", "\"", "u", "\"", ":", " ", "\"", "h", "t", "t", "p", ":", "/", "/", "a", "\"", "}">>,
     loose |-> <<"{", "\"", "u", "\"", ":", " ", "\"", "h", "t", "t", "p", ":", "/", "/", "a", "\"", ",", "}">>]

\* a string that holds a comma before a brace
D_COMMA ==
    [json |-> <<"{", "\"", "s", "\"", ":", " ", "\"", "a", ",", "}", "\"", "}">>,
     loose |-> <<"{", "\"", "s", "\"", ":", " ", "\"", "a", ",", "}", "\"", ",", "}">>]

\* a string that holds a single quote
D_QUOTE ==
    [json |-> <<"{", "\"", "b", "\"", ":", " ", "t", "r", "u", "e", ",", " ", "\"", "a", "\"", ":", " ", "\"", "i", "t", "'", "s", "\"", "}">>,
     loose |-> <<"{", "\"", "b", "\"", ":", " ", "t", "r", "u", "e", ",", " ", "\"", "a", "\"", ":", " ", "\"", "i", "t", "'", "s", "\"", ",", "}">>]

\* a list, not an object
D_LIST ==
    [json |-> <<"[", "1", ",", " ", "2", "]">>,
     loose |-> <<"[", "1", ",", " ", "2", ",", "]">>]

\* single-quoted keys: not JSON
D_SINGLE ==
    [json |-> <<"{", "'", "a", "'", ":", " ", "1", "}">>,
     loose |-> <<"{", "'", "a", "'", ":", " ", "1", ",", "}">>]

\* no JSON at all
D_SORRY ==
    [json |-> <<"s", "o", "r", "r", "y">>,
     loose |-> <<"s", "o", "r", "r", "y">>]

\* braces around text that is not JSON
D_BROKEN ==
    [json |-> <<"{", "\"", "a", "\"", ":", " ", "1", ",", " ", "o", "o", "p", "s", "}">>,
     loose |-> <<"{", "\"", "a", "\"", ":", " ", "1", ",", " ", "o", "o", "p", "s", ",", "}">>]

\* nothing
D_EMPTY ==
    [json |-> <<>>,
     loose |-> <<>>]

RjDocs ==
    {D_SIMPLE, D_NESTED, D_URL, D_COMMA, D_QUOTE, D_LIST, D_SINGLE, D_SORRY, D_BROKEN, D_EMPTY}

\* prose in front of the document
ProseBefore ==
    {<<>>, <<"H", "e", "r", "e", " ", "i", "s", " ", "t", "h", "e", " ", "J", "S", "O", "N", ":", "\n">>,
     <<"N", "o", "t", "e", " ", "{", "x", "}", ":", " ">>}

\* prose behind the document
ProseAfter ==
    {<<>>, <<"\n", "D", "o", "n", "e", ".">>, <<" ", "/", "/", " ", "e", "n", "d">>}

FenceOpen == Backticks \o <<"j", "s", "o", "n", "\n">>

FenceClose == <<"\n">> \o Backticks

\* The texts passed: a document, strict or loose, fenced or not, in prose.
RjParts ==
    [before : ProseBefore, fence : BOOLEAN, doc : RjDocs, loose : BOOLEAN,
     after : ProseAfter]

Body(p) == IF p.loose THEN p.doc.loose ELSE p.doc.json

Fenced(p, body) == IF p.fence THEN FenceOpen \o body \o FenceClose ELSE body

Assembled(p) == p.before \o Fenced(p, Body(p)) \o p.after

NoResult == [kind |-> "none", by |-> "", value |-> JNull, pos |-> 0, window |-> None]

RjInit ==
    /\ rj_pc = "ready"
    /\ rj_parts \in RjParts
    /\ original_text = Assembled(rj_parts)
    /\ text = Assembled(rj_parts)
    /\ attempts_failed = <<>>
    /\ rj_result = NoResult

\* robust_json_parse is not under study
RjIdle ==
    /\ rj_pc = "idle"
    /\ rj_parts = [before |-> <<>>, fence |-> FALSE, doc |-> D_EMPTY, loose |-> FALSE,
                   after |-> <<>>]
    /\ original_text = <<>>
    /\ text = <<>>
    /\ attempts_failed = <<>>
    /\ rj_result = NoResult

\* return parsed (lines 363, 388, 417)
Return(name, parsed) ==
    /\ rj_pc' = "returned"
    /\ rj_result' = [kind |-> "returned", by |-> name, value |-> parsed.v, pos |-> 0,
                     window |-> None]
    /\ UNCHANGED attempts_failed

\* the attempt called name ended with parsed: return, or go on to next after
\* except json.JSONDecodeError
OrNext(name, parsed, next) ==
    IF parsed.ok THEN Return(name, parsed)
    ELSE /\ rj_pc' = next
         /\ attempts_failed' = Append(attempts_failed, name)
         /\ UNCHANGED rj_result

\* Strategies 1 to 5: the cleaned text (lines 324-345)
RjClean ==
    /\ rj_pc = "ready"
    /\ text' = Cleaned(original_text)
    /\ rj_pc' = "attempts"
    /\ UNCHANGED <<rj_parts, original_text, attempts_failed, rj_result, ct_vars,
                   fu_vars, bx_vars, cp_vars, gr_vars, ep_vars, mb_vars>>

\* One pass of for attempt_name, attempt_text in attempts (lines 358-366)
RjAttempt ==
    /\ rj_pc = "attempts"
    /\ OrNext(AttemptNames[Len(attempts_failed) + 1],
              json_loads(AttemptTexts(text, original_text)[Len(attempts_failed) + 1]),
              IF Len(attempts_failed) + 1 < Len(AttemptNames) THEN "attempts"
              ELSE "strategy7")
    /\ UNCHANGED <<rj_parts, original_text, text, ct_vars, fu_vars, bx_vars, cp_vars,
                   gr_vars, ep_vars, mb_vars>>

\* Strategy 7: braces located again, trailing commas fixed (lines 369-390)
RjStrategy7 ==
    /\ rj_pc = "strategy7"
    /\ OrNext("aggressive cleaning", json_loads(Strategy7Text(text)), "strategy8")
    /\ UNCHANGED <<rj_parts, original_text, text, ct_vars, fu_vars, bx_vars, cp_vars,
                   gr_vars, ep_vars, mb_vars>>

\* Strategy 8: single quotes rewritten (lines 394-419)
RjStrategy8 ==
    /\ rj_pc = "strategy8"
    /\ OrNext("quote fixes", json_loads(Strategy8Text(text)), "failing")
    /\ UNCHANGED <<rj_parts, original_text, text, ct_vars, fu_vars, bx_vars, cp_vars,
                   gr_vars, ep_vars, mb_vars>>

\* raise HTTPException(500) with the error of json.loads(text) (lines 428-441),
\* or the fallback when that call succeeds (lines 444-447)
RaiseFor(e) ==
    /\ rj_pc' = "raised"
    /\ rj_result' =
         IF e.ok
         THEN [kind |-> "raised", by |-> "fallback", value |-> JNull, pos |-> 0,
               window |-> None]
         ELSE [kind |-> "raised", by |-> "JSONDecodeError", value |-> JNull,
               pos |-> e.pos, window |-> ErrorWindow(text, e.pos)]

\* All strategies failed (lines 421-447)
RjFail ==
    /\ rj_pc = "failing"
    /\ RaiseFor(json_loads(text))
    /\ UNCHANGED <<rj_parts, original_text, text, attempts_failed, ct_vars, fu_vars,
                   bx_vars, cp_vars, gr_vars, ep_vars, mb_vars>>

RobustJsonParse == RjClean \/ RjAttempt \/ RjStrategy7 \/ RjStrategy8 \/ RjFail

(***************************************************************************)
(* The followup loop run on its own                                        *)
(***************************************************************************)
FuInit ==
    /\ fu_pc = "loop"
    /\ followup_data_list \in FollowupLists
    /\ fu_idx = 1
    /\ appointment_followups = <<>>

\* the followup loop is not under study
FuIdle ==
    /\ fu_pc = "idle"
    /\ followup_data_list = <<>>
    /\ fu_idx = 1
    /\ appointment_followups = <<>>

\* One iteration of for followup_data in followup_data_list (lines 669-700).
FollowupIteration ==
    /\ fu_pc = "loop"
    /\ fu_idx <= Len(followup_data_list)
    /\ appointment_followups' =
         appointment_followups \o build_followup(followup_data_list[fu_idx])
    /\ fu_idx' = fu_idx + 1
    /\ UNCHANGED <<fu_pc, followup_data_list, ct_vars, rj_vars, bx_vars, cp_vars, gr_vars, ep_vars,
                   mb_vars>>

\* The loop is left after the last entry.
FollowupsDone ==
    /\ fu_pc = "loop"
    /\ fu_idx > Len(followup_data_list)
    /\ fu_pc' = "done"
    /\ UNCHANGED <<followup_data_list, fu_idx, appointment_followups, ct_vars, rj_vars,
                   bx_vars, cp_vars, gr_vars, ep_vars, mb_vars>>

FollowupLoop == FollowupIteration \/ FollowupsDone

(***************************************************************************)
(* The three extractions run on one inference text                         *)
(***************************************************************************)
BxInit ==
    /\ bill_json = [kind |-> "ready", value |-> JNull]
    /\ report_json = [kind |-> "ready", value |-> JNull]

\* the bill and report extractions are not under study
BxIdle ==
    /\ bill_json = [kind |-> "idle", value |-> JNull]
    /\ report_json = [kind |-> "idle", value |-> JNull]

\* The bill path parses the inference text.
BillParseJson ==
    /\ bill_json.kind = "ready"
    /\ bill_json' = parse_bill_json(original_text)
    /\ UNCHANGED <<report_json, ct_vars, rj_vars, fu_vars, cp_vars, gr_vars,
                   ep_vars, mb_vars>>

\* The report path parses the inference text.
ReportParseJson ==
    /\ report_json.kind = "ready"
    /\ report_json' = parse_report_json(original_text)
    /\ UNCHANGED <<bill_json, ct_vars, rj_vars, fu_vars, cp_vars, gr_vars,
                   ep_vars, mb_vars>>

Extractions == RobustJsonParse \/ BillParseJson \/ ReportParseJson

(***************************************************************************)
(* create_patient called on its own                                        *)
(***************************************************************************)
CpInit ==
    /\ cp_pc = "ready"
    /\ patient \in Patients
    /\ patient_dict = JNull

\* create_patient is not under study
CpIdle ==
    /\ cp_pc = "idle"
    /\ patient = [admission_date |-> D0, discharge_date |-> None, bill_details |-> <<>>,
                  appointment_followup |-> <<>>]
    /\ patient_dict = JNull

\* patient_dict = patient.model_dump() and the defaults (lines 30-48)
CpDump ==
    /\ cp_pc = "ready"
    /\ patient_dict' = WithDefaults(model_dump(patient))
    /\ cp_pc' = "dumped"
    /\ UNCHANGED <<patient, ct_vars, rj_vars, fu_vars, bx_vars, gr_vars, ep_vars, mb_vars>>

\* patient_dict = serialize_dates_for_mongodb(patient_dict) (line 52)
CpSerialize ==
    /\ cp_pc = "dumped"
    /\ patient_dict' = serialize_dates_for_mongodb(patient_dict)
    /\ cp_pc' = "serialized"
    /\ UNCHANGED <<patient, ct_vars, rj_vars, fu_vars, bx_vars, gr_vars, ep_vars, mb_vars>>

\* supabase.table("patients").insert(patient_dict).execute() (lines 56-64):
\* the mapping is handed to the record store, which takes it or fails
CpInsert ==
    /\ cp_pc = "serialized"
    /\ cp_pc' \in {"inserted", "raised"}
    /\ UNCHANGED <<patient, patient_dict, ct_vars, rj_vars, fu_vars, bx_vars, gr_vars,
                   ep_vars, mb_vars>>

CreatePatientService == CpDump \/ CpSerialize \/ CpInsert

\* the functions studied on their own are idle
FnIdle == CtIdle /\ RjIdle /\ FuIdle /\ BxIdle /\ CpIdle

(***************************************************************************)
(* create_patient_endpoint: the bill and report batches                    *)
(***************************************************************************)
\* the most documents uploaded in one batch
MaxDocs == 2

\* An uploaded file is known by whether its filename ends in .pdf.
FileKinds == {"pdf", "other"}

Requests ==
    [contacts_ok : BOOLEAN,
     discharge_summary_pdf : {"absent"} \cup FileKinds,
     medication_details : {"absent", "json", "invalid"},
     bill_details : SeqsUpTo(FileKinds, MaxDocs),
     reports : SeqsUpTo(FileKinds, MaxDocs)]

\* The locator the storage collaborator returns for document i of a batch.
Url(folder, i) == [folder |-> folder, doc |-> i]

\* What the parser returns for document i of a batch: BillParsed / ReportParsed.
Parsed(kind, i, context) == [kind |-> kind, doc |-> i, context |-> context]

Unset == [unset |-> TRUE]

EpInit ==
    /\ request \in Requests
    /\ pc = "validate"
    /\ idx = 0
    /\ medication_details_dict = "unset"
    /\ bills_list = <<>>
    /\ bill_url = Unset
    /\ parsed_bill = Unset
    /\ reports_list = <<>>
    /\ report_url = Unset
    /\ parsed_report = Unset
    /\ outcome = [discharge |-> "", bill |-> <<>>, report |-> <<>>, certificate |-> ""]
    /\ response = 0

\* the endpoint is not under study
EpIdle ==
    /\ request = [contacts_ok |-> TRUE, discharge_summary_pdf |-> "absent",
                  medication_details |-> "absent", bill_details |-> <<>>,
                  reports |-> <<>>]
    /\ pc = "idle"
    /\ idx = 0
    /\ medication_details_dict = "unset"
    /\ bills_list = <<>>
    /\ bill_url = Unset
    /\ parsed_bill = Unset
    /\ reports_list = <<>>
    /\ report_url = Unset
    /\ parsed_report = Unset
    /\ outcome = [discharge |-> "", bill |-> <<>>, report |-> <<>>, certificate |-> ""]
    /\ response = 0

\* raise HTTPException(status) out of the handler (lines 420-428)
Abort(status) ==
    /\ pc' = "failed"
    /\ response' = status

\* Validate contact numbers (lines 88-101)
ValidateContacts ==
    /\ pc = "validate"
    /\ IF request.contacts_ok
       THEN pc' = "discharge" /\ UNCHANGED response
       ELSE Abort(400)
    /\ UNCHANGED <<gr_vars, mb_vars, fn_vars, request, idx, medication_details_dict, bills_list,
                   bill_url, parsed_bill, reports_list, report_url, parsed_report,
                   outcome>>

\* No discharge summary: medication_details from the form (lines 190-205)
MedicationDetailsFromForm ==
    /\ pc = "discharge"
    /\ request.discharge_summary_pdf = "absent"
    /\ IF request.medication_details = "invalid"
       THEN Abort(400) /\ UNCHANGED medication_details_dict
       ELSE /\ pc' = "bills"
            /\ medication_details_dict' =
                 IF request.medication_details = "json" THEN "form" ELSE "empty"
            /\ UNCHANGED response
    /\ UNCHANGED <<gr_vars, mb_vars, fn_vars, request, idx, bills_list, bill_url, parsed_bill,
                   reports_list, report_url, parsed_report, outcome>>

\* How the steps of the discharge summary can end for a file of this kind:
\* the check of lines 113-117, process_pdf_discharge_summary (line 121),
\* parse_discharge_summary_with_vision (line 131: the request to the vision
\* model, robust_json_parse, the records), or every step done ("Parsed").
DischargeOutcomes(kind) ==
    IF kind = "other" THEN {"WrongKind"}
    ELSE {"UploadFailed", "RasterizeFailed", "InferenceFailed", "ExtractionFailed",
          "ValidationFailed", "Parsed"}

\* The discharge summary (lines 107-188): any failure of its steps is re-raised,
\* and after a successful parse line 173 reads parsed_data.action_plan, which
\* DischargeSummaryParsed (schemas/medications.py 70-78) does not define: the
\* AttributeError becomes the HTTPException of lines 183-188.
DischargeSummary ==
    /\ pc = "discharge"
    /\ request.discharge_summary_pdf # "absent"
    /\ \E how \in DischargeOutcomes(request.discharge_summary_pdf) :
         /\ outcome' = [outcome EXCEPT !.discharge = how]
         /\ IF how = "WrongKind" THEN Abort(400) ELSE Abort(500)
    /\ UNCHANGED <<gr_vars, mb_vars, fn_vars, request, idx, medication_details_dict, bills_list,
                   bill_url, parsed_bill, reports_list, report_url, parsed_report>>

\* Where control goes when an iteration of a batch raises exc: both handlers of
\* the loop body log and continue (lines 258-265 and 328-335).
\* Mutant: the HTTPException handler re-raises, as the discharge summary's does.
BatchHandler_Reraise(exc) == IF exc = "HTTPException" THEN "raise" ELSE "continue"

BatchHandler(exc) == "continue"

\* The list of a batch after an iteration that raised or skipped: no statement
\* of the handlers or of the skip touches it.
\* Mutant: the list is started again.
ListAfterFailure_Reset(list) == <<>>

ListAfterFailure(list) == list

\* bills_list.append(bill_dict) (line 255), reports_list.append(report_dict) (line 325)
\* Mutant: the entry is put in front.
AppendEntry_Prepend(list, entry) == <<entry>> \o list

AppendEntry(list, entry) == Append(list, entry)

\* the pc after iteration i of the bill loop
AfterBill(i) == IF i < Len(request.bill_details) THEN "bill_check" ELSE "reports"

\* the pc after iteration i of the report loop
AfterReport(i) == IF i < Len(request.reports) THEN "report_check" ELSE "certificate"

\* bills_list = [] and the loop entry (lines 208-213)
BillsBegin ==
    /\ pc = "bills"
    /\ bills_list' = <<>>
    /\ idx' = 1
    /\ pc' = AfterBill(0)
    /\ UNCHANGED <<gr_vars, mb_vars, fn_vars, request, medication_details_dict, bill_url, parsed_bill,
                   reports_list, report_url, parsed_report, outcome, response>>

\* An iteration of the bill loop ends without an entry: a skip (line 220) or an
\* exception taken by a handler (lines 258-265).
BillEndsWithout(how, exc) ==
    /\ outcome' = [outcome EXCEPT !.bill = Append(@, how)]
    /\ IF how # "Skipped" /\ BatchHandler(exc) = "raise"
       THEN Abort(500) /\ UNCHANGED <<idx, bills_list>>
       ELSE /\ bills_list' = ListAfterFailure(bills_list)
            /\ idx' = idx + 1
            /\ pc' = AfterBill(idx)
            /\ UNCHANGED response

\* Validate file type (lines 217-220)
\* Mutant: the file kind is not looked at.
BillCheck_AnyKind ==
    /\ pc = "bill_check"
    /\ pc' = "bill_upload"
    /\ UNCHANGED <<idx, bills_list, outcome, response>>
    /\ UNCHANGED <<gr_vars, mb_vars, fn_vars, request, medication_details_dict, bill_url, parsed_bill,
                   reports_list, report_url, parsed_report>>

BillCheck ==
    /\ pc = "bill_check"
    /\ IF request.bill_details[idx] = "pdf"
       THEN /\ pc' = "bill_upload"
            /\ UNCHANGED <<idx, bills_list, outcome, response>>
       ELSE BillEndsWithout("Skipped", "none")
    /\ UNCHANGED <<gr_vars, mb_vars, fn_vars, request, medication_details_dict, bill_url, parsed_bill,
                   reports_list, report_url, parsed_report>>

\* process_pdf_bill: read and upload the PDF (pdf_service.py 230-266)
BillUpload ==
    /\ pc = "bill_upload"
    /\ \/ /\ pc' = "bill_rasterize"
          /\ bill_url' = Url("bills", idx)
          /\ UNCHANGED <<idx, bills_list, outcome, response>>
       \/ /\ BillEndsWithout("UploadFailed", "HTTPException")
          /\ UNCHANGED bill_url
    /\ UNCHANGED <<gr_vars, mb_vars, fn_vars, request, medication_details_dict, parsed_bill,
                   reports_list, report_url, parsed_report>>

\* process_pdf_bill: convert_pdf_bytes_to_images (pdf_service.py 268-273)
BillRasterize ==
    /\ pc = "bill_rasterize"
    /\ \/ /\ pc' = "bill_infer"
          /\ UNCHANGED <<idx, bills_list, outcome, response>>
       \/ BillEndsWithout("RasterizeFailed", "HTTPException")
    /\ UNCHANGED <<gr_vars, mb_vars, fn_vars, request, medication_details_dict, bill_url, parsed_bill,
                   reports_list, report_url, parsed_report>>

\* parse_bill_with_vision: the request to the vision model
\* (bill_parser_service.py 130-167)
BillInfer ==
    /\ pc = "bill_infer"
    /\ \/ /\ pc' = "bill_extract"
          /\ UNCHANGED <<idx, bills_list, outcome, response>>
       \/ BillEndsWithout("InferenceFailed", "HTTPException")
    /\ UNCHANGED <<gr_vars, mb_vars, fn_vars, request, medication_details_dict, bill_url, parsed_bill,
                   reports_list, report_url, parsed_report>>

\* parse_bill_with_vision: the JSON of the answer (bill_parser_service.py 172-190)
BillExtract ==
    /\ pc = "bill_extract"
    /\ \/ /\ pc' = "bill_build"
          /\ UNCHANGED <<idx, bills_list, outcome, response>>
       \/ BillEndsWithout("ExtractionFailed", "HTTPException")
    /\ UNCHANGED <<gr_vars, mb_vars, fn_vars, request, medication_details_dict, bill_url, parsed_bill,
                   reports_list, report_url, parsed_report>>

\* parse_bill_with_vision: BillParsed (bill_parser_service.py 192-217), then
\* the bill_dict of the loop body (lines 238-256)
BillBuild ==
    /\ pc = "bill_build"
    /\ \/ /\ parsed_bill' = Parsed("bill", idx, "none")
          /\ bills_list' =
               AppendEntry(bills_list, [url |-> bill_url, parsed |-> parsed_bill'])
          /\ outcome' = [outcome EXCEPT !.bill = Append(@, "Succeeded")]
          /\ idx' = idx + 1
          /\ pc' = AfterBill(idx)
          /\ UNCHANGED response
       \/ /\ BillEndsWithout("ValidationFailed", "HTTPException")
          /\ UNCHANGED parsed_bill
    /\ UNCHANGED <<gr_vars, mb_vars, fn_vars, request, medication_details_dict, bill_url,
                   reports_list, report_url, parsed_report>>

\* reports_list = [] and the loop entry (lines 271-280)
ReportsBegin ==
    /\ pc = "reports"
    /\ reports_list' = <<>>
    /\ idx' = 1
    /\ pc' = AfterReport(0)
    /\ UNCHANGED <<gr_vars, mb_vars, fn_vars, request, medication_details_dict, bills_list, bill_url,
                   parsed_bill, report_url, parsed_report, outcome, response>>

\* An iteration of the report loop ends without an entry: a skip (line 287) or
\* an exception taken by a handler (lines 328-335).
ReportEndsWithout(how, exc) ==
    /\ outcome' = [outcome EXCEPT !.report = Append(@, how)]
    /\ IF how # "Skipped" /\ BatchHandler(exc) = "raise"
       THEN Abort(500) /\ UNCHANGED <<idx, reports_list>>
       ELSE /\ reports_list' = ListAfterFailure(reports_list)
            /\ idx' = idx + 1
            /\ pc' = AfterReport(idx)
            /\ UNCHANGED response

\* Validate file type (lines 284-287)
ReportCheck ==
    /\ pc = "report_check"
    /\ IF request.reports[idx] = "pdf"
       THEN /\ pc' = "report_upload"
            /\ UNCHANGED <<idx, reports_list, outcome, response>>
       ELSE ReportEndsWithout("Skipped", "none")
    /\ UNCHANGED <<gr_vars, mb_vars, fn_vars, request, medication_details_dict, bills_list, bill_url,
                   parsed_bill, report_url, parsed_report>>

\* process_pdf_report: read and upload the PDF (pdf_service.py 153-200)
ReportUpload ==
    /\ pc = "report_upload"
    /\ \/ /\ pc' = "report_rasterize"
          /\ report_url' = Url("reports", idx)
          /\ UNCHANGED <<idx, reports_list, outcome, response>>
       \/ /\ ReportEndsWithout("UploadFailed", "HTTPException")
          /\ UNCHANGED report_url
    /\ UNCHANGED <<gr_vars, mb_vars, fn_vars, request, medication_details_dict, bills_list, bill_url,
                   parsed_bill, parsed_report>>

\* process_pdf_report: convert_pdf_bytes_to_images (pdf_service.py 202-207)
ReportRasterize ==
    /\ pc = "report_rasterize"
    /\ \/ /\ pc' = "report_infer"
          /\ UNCHANGED <<idx, reports_list, outcome, response>>
       \/ ReportEndsWithout("RasterizeFailed", "HTTPException")
    /\ UNCHANGED <<gr_vars, mb_vars, fn_vars, request, medication_details_dict, bills_list, bill_url,
                   parsed_bill, report_url, parsed_report>>

\* parse_report_with_vision: the request to the vision model
\* (report_parser_service.py 139-176)
ReportInfer ==
    /\ pc = "report_infer"
    /\ \/ /\ pc' = "report_extract"
          /\ UNCHANGED <<idx, reports_list, outcome, response>>
       \/ ReportEndsWithout("InferenceFailed", "HTTPException")
    /\ UNCHANGED <<gr_vars, mb_vars, fn_vars, request, medication_details_dict, bills_list, bill_url,
                   parsed_bill, report_url, parsed_report>>

\* parse_report_with_vision: the JSON of the answer (report_parser_service.py 181-199)
ReportExtract ==
    /\ pc = "report_extract"
    /\ \/ /\ pc' = "report_build"
          /\ UNCHANGED <<idx, reports_list, outcome, response>>
       \/ ReportEndsWithout("ExtractionFailed", "HTTPException")
    /\ UNCHANGED <<gr_vars, mb_vars, fn_vars, request, medication_details_dict, bills_list, bill_url,
                   parsed_bill, report_url, parsed_report>>

\* parse_report_with_vision: ReportParsed (report_parser_service.py 201-228),
\* then the report_dict of the loop body (lines 307-326); the prompt carried the
\* medications and the diagnosis of medication_details_dict (lines 277-278)
ReportBuild ==
    /\ pc = "report_build"
    /\ \/ /\ parsed_report' = Parsed("report", idx, medication_details_dict)
          /\ reports_list' =
               AppendEntry(reports_list, [url |-> report_url, parsed |-> parsed_report'])
          /\ outcome' = [outcome EXCEPT !.report = Append(@, "Succeeded")]
          /\ idx' = idx + 1
          /\ pc' = AfterReport(idx)
          /\ UNCHANGED response
       \/ /\ ReportEndsWithout("ValidationFailed", "HTTPException")
          /\ UNCHANGED parsed_report
    /\ UNCHANGED <<gr_vars, mb_vars, fn_vars, request, medication_details_dict, bills_list, bill_url,
                   parsed_bill, report_url>>

\* The rest of the handler (lines 340-418): the certificate upload, whose
\* failure leaves the handler; the justification document, whose failure is
\* swallowed; create_patient, which answers 201 or fails.
\* lines 350-418 once the certificate is dealt with
CreatePatient ==
    \/ pc' = "done" /\ response' = 201
    \/ Abort(500)

\* How the certificate upload of lines 342-348 can end; no handler stands
\* between upload_pdf_to_cloudinary (cloudinary_service.py 13-87), which
\* raises 400 for a file that is not a PDF and 500 for a failed upload, and
\* the handlers of lines 420-428.
CertificateOutcomes == {"Absent", "Uploaded", "WrongKind", "UploadFailed"}

\* the certificate step ended as how
AfterCertificate(how) ==
    IF how = "WrongKind" THEN Abort(400)
    ELSE IF how = "UploadFailed" THEN Abort(500)
    ELSE CreatePatient

Finish ==
    /\ pc = "certificate"
    /\ \E how \in CertificateOutcomes :
         /\ outcome' = [outcome EXCEPT !.certificate = how]
         /\ AfterCertificate(how)
    /\ UNCHANGED <<gr_vars, mb_vars, fn_vars, request, idx, medication_details_dict, bills_list,
                   bill_url, parsed_bill, reports_list, report_url, parsed_report>>

Next ==
    \/ ValidateContacts
    \/ MedicationDetailsFromForm
    \/ DischargeSummary
    \/ BillsBegin
    \/ BillCheck
    \/ BillUpload
    \/ BillRasterize
    \/ BillInfer
    \/ BillExtract
    \/ BillBuild
    \/ ReportsBegin
    \/ ReportCheck
    \/ ReportUpload
    \/ ReportRasterize
    \/ ReportInfer
    \/ ReportExtract
    \/ ReportBuild
    \/ Finish

Init == EpInit /\ GrIdle /\ MbIdle /\ FnIdle

\* One request handled by create_patient_endpoint.
Spec == Init /\ [][Next]_vars

InitReminders == GrInit /\ EpIdle /\ MbIdle /\ FnIdle

\* Calls of generate_reminders over the bounded arguments.
SpecReminders == InitReminders /\ [][GenerateReminders]_vars

InitBuilder == MbInit /\ GrIdle /\ EpIdle /\ FnIdle

\* Medication entries over the bounded JSON values.
SpecBuilder == InitBuilder /\ [][BuildMedication]_vars

InitTime == CtInit /\ RjIdle /\ FuIdle /\ BxIdle /\ CpIdle /\ GrIdle /\ MbIdle /\ EpIdle

\* Calls of convert_time_to_iso over the bounded texts and dates.
SpecTime == InitTime /\ [][ConvertTimeToIso]_vars

InitJson == RjInit /\ CtIdle /\ FuIdle /\ BxIdle /\ CpIdle /\ GrIdle /\ MbIdle /\ EpIdle

\* Calls of robust_json_parse over the bounded texts.
SpecJson == InitJson /\ [][RobustJsonParse]_vars

InitFollowups == FuInit /\ CtIdle /\ RjIdle /\ BxIdle /\ CpIdle /\ GrIdle /\ MbIdle /\ EpIdle

\* The followup loop over the bounded lists of entries.
SpecFollowups == InitFollowups /\ [][FollowupLoop]_vars

InitExtractions == RjInit /\ BxInit /\ CtIdle /\ FuIdle /\ CpIdle /\ GrIdle /\ MbIdle /\ EpIdle

\* The discharge, bill and report extractions of one inference text.
SpecExtractions == InitExtractions /\ [][Extractions]_vars

InitPatient == CpInit /\ CtIdle /\ RjIdle /\ FuIdle /\ BxIdle /\ GrIdle /\ MbIdle /\ EpIdle

\* Calls of create_patient over the bounded patient records.
SpecPatient == InitPatient /\ [][CreatePatientService]_vars

(***************************************************************************)
(* Properties of generate_reminders                                        *)
(***************************************************************************)
\* The effective dates and timing of the call that has been made, written out
\* from the arguments: the given value or, when absent, the default.
CalledStart ==
    IF gr_args.start_date = None THEN gr_locals.today + 1 ELSE gr_args.start_date[1]

CalledEnd == IF gr_args.end_date = None THEN CalledStart + 30 ELSE gr_args.end_date[1]

CalledTiming == IF gr_args.timing = <<>> THEN <<DefaultTiming>> ELSE gr_args.timing

SetOf(list) == {list[i] : i \in 1..Len(list)}

\* the positions of the result whose reminder is on date d, in list order
PositionsOn(d) == {i \in 1..Len(gr_result) : gr_result[i].datte = d}

\* the dates of the window whose weekday is in the day-set used
MatchingDates ==
    {d \in CalledStart..CalledEnd : DayAt(Weekday(d)) \in SetOf(gr_locals.days_to_use)}

\* C5: generate_reminders with frequency as_needed returns the empty list,
\* whatever days, timing, start_date and end_date are.
C5_AsNeededEmpty ==
    (gr_pc # "ready" /\ gr_args.frequency = "as_needed")
        => (gr_pc = "returned" /\ gr_result = <<>>)

C5_Witness ==
    /\ gr_pc = "returned"
    /\ gr_args.frequency = "as_needed"
    /\ gr_args.days # <<>>
    /\ gr_args.timing = <<T_830AM, T_HUGE>>
    /\ gr_args.start_date # None
    /\ gr_args.end_date # None
    /\ gr_args.start_date[1] < gr_args.end_date[1]

\* C6: every reminder returned has a date between the effective start date and
\* the effective end date (the given ones, or tomorrow and start + 30 days).
C6_DatesInWindow ==
    gr_pc = "returned" =>
        \A i \in 1..Len(gr_result) :
            CalledStart <= gr_result[i].datte /\ gr_result[i].datte <= CalledEnd

C6_Witness ==
    /\ gr_pc = "returned"
    /\ gr_args.start_date = None
    /\ gr_args.end_date = None
    /\ \E i \in 1..Len(gr_result) : gr_result[i].datte = gr_locals.today + 1
    /\ \E i \in 1..Len(gr_result) : gr_result[i].datte = gr_locals.today + 31

\* The calendar of a call that returned is gap-free and exact.
ReturnedCalendarExact ==
    /\ \A d \in CalledStart..CalledEnd :
         IF d \in MatchingDates
         THEN /\ Cardinality(PositionsOn(d)) = Len(CalledTiming)
              /\ \A i \in PositionsOn(d) :
                   LET k == Cardinality({j \in PositionsOn(d) : j <= i})
                   IN gr_result[i].time = convert_time_to_iso(CalledTiming[k], d).value
         ELSE PositionsOn(d) = {}
    /\ Len(gr_result) = Cardinality(MatchingDates) * Len(CalledTiming)

\* C7: for a frequency other than as_needed, every date of the window whose
\* weekday is in the day-set gets exactly one reminder per timing entry, with the
\* normalised time of that entry on that date, every other date gets none, and
\* the total is (matching dates) x (timing entries).
C7_GapFreeExact ==
    (gr_pc # "ready" /\ gr_args.frequency # "as_needed")
        => (gr_pc = "returned" /\ ReturnedCalendarExact)

\* What remains of C7 when the call returns.
C7_ExactWhenReturned ==
    (gr_pc = "returned" /\ gr_args.frequency # "as_needed") => ReturnedCalendarExact

\* C8: the reminders returned are in non-decreasing date order, and the reminders
\* of one date follow the order of the timing entries.
C8_Ordered ==
    gr_pc = "returned" =>
        /\ \A i, j \in 1..Len(gr_result) :
             i < j => gr_result[i].datte <= gr_result[j].datte
        /\ \A i \in 1..Len(gr_result) :
             LET d == gr_result[i].datte
                 k == Cardinality({j \in PositionsOn(d) : j <= i})
             IN /\ k <= Len(CalledTiming)
                /\ gr_result[i].time = convert_time_to_iso(CalledTiming[k], d).value

C8_Witness ==
    /\ gr_pc = "returned"
    /\ gr_args.timing = <<T_6PM, T_830AM>>
    /\ Len(gr_result) >= 4
    /\ gr_result[1].datte < gr_result[Len(gr_result)].datte
    /\ gr_result[1].time # gr_result[2].time

\* C9: with frequency weekly and no explicit days the reminder dates are exactly
\* the dates start + 7k (k >= 0) up to the end date, one reminder per timing
\* entry on each.
C9_WeeklyEverySeventhDay ==
    (gr_pc # "ready" /\ gr_args.frequency = "weekly" /\ gr_args.days = <<>>)
        => /\ gr_pc = "returned"
           /\ {gr_result[i].datte : i \in 1..Len(gr_result)}
                = {d \in CalledStart..CalledEnd : (d - CalledStart) % 7 = 0}
           /\ \A d \in CalledStart..CalledEnd :
                (d - CalledStart) % 7 = 0
                    => Cardinality(PositionsOn(d)) = Len(CalledTiming)

\* What remains of C9 when the call returns.
C9_WeeklyWhenReturned ==
    (gr_pc = "returned" /\ gr_args.frequency = "weekly" /\ gr_args.days = <<>>)
        => /\ {gr_result[i].datte : i \in 1..Len(gr_result)}
                = {d \in CalledStart..CalledEnd : (d - CalledStart) % 7 = 0}
           /\ \A d \in CalledStart..CalledEnd :
                (d - CalledStart) % 7 = 0
                    => Cardinality(PositionsOn(d)) = Len(CalledTiming)

\* C10: the day-set follows the priority policy: explicit days verbatim; else
\* daily all seven weekdays; twice_a_week the weekday of the start date and the
\* one three days later modulo 7, two distinct weekdays; weekly the weekday of
\* the start date; alternate_days Monday, Wednesday, Friday, Sunday; custom all
\* seven.  Reminders fall only on weekdays of the day-set.
C10_DaySetPolicy ==
    (gr_pc # "ready" /\ gr_args.frequency # "as_needed") =>
        LET days == gr_args.days
            f    == gr_args.frequency
            used == gr_locals.days_to_use
            wd   == Weekday(CalledStart)
        IN /\ days # <<>> => used = days
           /\ (days = <<>> /\ f \in {"daily", "custom"}) => SetOf(used) = DayEnum
           /\ (days = <<>> /\ f = "twice_a_week") =>
                /\ SetOf(used) = {DayEnumList[wd + 1], DayEnumList[((wd + 3) % 7) + 1]}
                /\ Cardinality(SetOf(used)) = 2
           /\ (days = <<>> /\ f = "weekly") => SetOf(used) = {DayEnumList[wd + 1]}
           /\ (days = <<>> /\ f = "alternate_days") =>
                SetOf(used) = {"monday", "wednesday", "friday", "sunday"}
           /\ \A i \in 1..Len(gr_result) :
                /\ gr_result[i].day \in SetOf(used)
                /\ gr_result[i].day = DayEnumList[Weekday(gr_result[i].datte) + 1]

\* twice_a_week from a Friday start wraps to Monday, and both days are used
C10_Witness ==
    /\ gr_pc = "returned"
    /\ gr_args.frequency = "twice_a_week"
    /\ gr_args.days = <<>>
    /\ Weekday(CalledStart) = 4
    /\ gr_locals.days_to_use = <<"friday", "monday">>
    /\ \E i \in 1..Len(gr_result) : gr_result[i].day = "monday"
    /\ \E i \in 1..Len(gr_result) : gr_result[i].day = "friday"

\* explicit days are used with a frequency that has a policy of its own
C10_WitnessExplicit ==
    /\ gr_pc = "returned"
    /\ gr_args.frequency = "daily"
    /\ gr_args.days = <<"sunday", "tuesday", "sunday">>
    /\ Len(gr_result) > 0

\* C11: in a call that gets past the as_needed guard, an absent start_date is
\* the day after the invocation date, an absent end_date is the effective
\* start date + 30 days (a window of exactly 31 dates) and an empty timing is
\* the single entry "10:00AM"; a given start_date, end_date or timing is used
\* as it is, and with a given start_date the outcome is the same on every
\* invocation date.
C11_Defaults ==
    (gr_pc # "ready" /\ gr_args.frequency # "as_needed") =>
        /\ gr_locals.start_date =
             IF gr_args.start_date = None THEN gr_locals.today + 1
             ELSE gr_args.start_date[1]
        /\ gr_locals.end_date =
             IF gr_args.end_date = None THEN gr_locals.start_date + 30
             ELSE gr_args.end_date[1]
        /\ gr_args.end_date = None =>
             Cardinality(gr_locals.start_date..gr_locals.end_date) = 31
        /\ gr_locals.timing =
             IF gr_args.timing = <<>> THEN <<<<"1", "0", ":", "0", "0", "A", "M">>>>
             ELSE gr_args.timing
        /\ gr_args.start_date # None =>
             \A t \in Todays :
                 generate_reminders(gr_args.days, gr_args.timing, gr_args.frequency,
                                    gr_args.start_date, gr_args.end_date, t)
                   = [exc |-> IF gr_pc = "returned" THEN "none" ELSE "OverflowError",
                      value |-> gr_result]

\* a daily call with no dates and no timing returned 31 reminders at 10:00:00,
\* from tomorrow to tomorrow + 30
C11_Witness ==
    /\ gr_pc = "returned"
    /\ gr_args.frequency = "daily"
    /\ gr_args.days = <<>>
    /\ gr_args.start_date = None
    /\ gr_args.end_date = None
    /\ gr_args.timing = <<>>
    /\ Len(gr_result) = 31
    /\ gr_result[1].datte = gr_locals.today + 1
    /\ gr_result[31].datte = gr_locals.today + 31
    /\ \A i \in 1..31 : SubSeq(gr_result[i].time, 11, 20)
                          = <<"T", "1", "0", ":", "0", "0", ":", "0", "0", "Z">>

\* C29: among the reminders of one medication no two share both the date
\* and the normalised time, whatever the timing list is.
C29_OnePerDateAndTime ==
    gr_pc = "returned" =>
        \A i, j \in 1..Len(gr_result) :
            (gr_result[i].datte = gr_result[j].datte /\ gr_result[i].time = gr_result[j].time)
                => i = j

\* the entries of the timing list stand for different times of the day
DistinctTimes ==
    \A i, j \in 1..Len(gr_args.timing) :
        convert_time_to_iso(gr_args.timing[i], D0) = convert_time_to_iso(gr_args.timing[j], D0)
            => i = j

\* The same for timing lists whose entries stand for different times.
C29_OnePerDistinctTime ==
    (gr_pc = "returned" /\ DistinctTimes) =>
        \A i, j \in 1..Len(gr_result) :
            (gr_result[i].datte = gr_result[j].datte /\ gr_result[i].time = gr_result[j].time)
                => i = j

(***************************************************************************)
(* Properties of convert_time_to_iso                                       *)
(***************************************************************************)
\* the two digits of text r from position i on, as a number
TwoDigitsAt(r, i) ==
    IF IsDigit(r[i]) /\ IsDigit(r[i + 1]) THEN DigitVal(r[i]) * 10 + DigitVal(r[i + 1])
    ELSE 0 - 1

\* r is YYYY-MM-DDTHH:MM:SSZ on the date passed, with the time in range
IsTimestampOn(r, d) ==
    /\ Len(r) = 20
    /\ SubSeq(r, 1, 10) = Pad4(FromOrdinal(d).year) \o <<"-">> \o Pad2(FromOrdinal(d).month)
                            \o <<"-">> \o Pad2(FromOrdinal(d).day)
    /\ r[11] = "T" /\ r[14] = ":" /\ r[17] = ":" /\ r[20] = "Z"
    /\ TwoDigitsAt(r, 12) \in 0..23
    /\ TwoDigitsAt(r, 15) \in 0..59
    /\ TwoDigitsAt(r, 18) \in 0..59

\* the text passed has no hour, minute and second that are numbers in range
Unparseable ==
    \/ ~ParsedTime(time_str).ok
    \/ ParsedTime(time_str).hour.big \/ ParsedTime(time_str).hour.val \notin 0..23
    \/ ParsedTime(time_str).minute.big \/ ParsedTime(time_str).minute.val \notin 0..59
    \/ ParsedTime(time_str).second.big \/ ParsedTime(time_str).second.val \notin 0..59

TenOClock == <<"T", "1", "0", ":", "0", "0", ":", "0", "0", "Z">>

\* C12: a call of convert_time_to_iso never raises; it returns a timestamp
\* YYYY-MM-DDTHH:MM:SSZ on the date passed with hour, minute and second in
\* range, and for a text that cannot be parsed that timestamp is 10:00:00.
C12_NeverRaises ==
    ct_pc # "ready" =>
        /\ ct_pc = "returned"
        /\ IsTimestampOn(ct_result, date_obj)
        /\ Unparseable => SubSeq(ct_result, 11, 20) = TenOClock

\* The same for the calls that returned.
C12_TimestampWhenReturned ==
    ct_pc = "returned" =>
        /\ IsTimestampOn(ct_result, date_obj)
        /\ Unparseable => SubSeq(ct_result, 11, 20) = TenOClock

\* the hour, minute and second written before the marker of the text passed
MarkedInts == Parse12(Upper(Strip(time_str)))

\* the text passed has AM or PM and H[:M[:S]] in range before it
MarkedInRange ==
    /\ HasMarker(Upper(Strip(time_str)))
    /\ AllOk(MarkedInts)
    /\ ~MarkedInts[1].big /\ MarkedInts[1].val \in 0..23
    /\ ~MarkedInts[2].big /\ MarkedInts[2].val \in 0..59
    /\ ~MarkedInts[3].big /\ MarkedInts[3].val \in 0..59

MarkedPm == Contains(Upper(Strip(time_str)), <<"P", "M">>)

\* the hour of the 12-hour conversion: 12 AM is 0, PM below 12 is H + 12,
\* everything else is H
TwelveHourOf(h, is_pm) ==
    IF ~is_pm /\ h = 12 THEN 0 ELSE IF is_pm /\ h < 12 THEN h + 12 ELSE h

\* C13: for a text with AM or PM whose remainder is H[:M[:S]] with H in 0..23
\* and M, S in 0..59, the timestamp returned has hour 0 for 12 AM, H + 12 for PM
\* with H < 12 and H otherwise, and minute M and second S.
C13_TwelveHourConversion ==
    (ct_pc # "ready" /\ MarkedInRange) =>
        /\ ct_pc = "returned"
        /\ TwoDigitsAt(ct_result, 12) = TwelveHourOf(MarkedInts[1].val, MarkedPm)
        /\ TwoDigitsAt(ct_result, 15) = MarkedInts[2].val
        /\ TwoDigitsAt(ct_result, 18) = MarkedInts[3].val

\* The same for hours a 12-hour clock has: 0..12.
C13_TwelveHourClock ==
    (ct_pc # "ready" /\ MarkedInRange /\ MarkedInts[1].val <= 12) =>
        /\ ct_pc = "returned"
        /\ TwoDigitsAt(ct_result, 12) = TwelveHourOf(MarkedInts[1].val, MarkedPm)
        /\ TwoDigitsAt(ct_result, 15) = MarkedInts[2].val
        /\ TwoDigitsAt(ct_result, 18) = MarkedInts[3].val

(***************************************************************************)
(* Properties of robust_json_parse                                         *)
(***************************************************************************)
\* the document of the text passed is a JSON object
ValidObject == json_loads(rj_parts.doc.json).ok /\ json_loads(rj_parts.doc.json).v.t = "obj"

Finished == rj_pc \in {"returned", "raised"}

\* C14: for a text made of a valid JSON object, strict, with prose before and
\* after it and markdown fences around it or not, robust_json_parse returns
\* the object that parsing the JSON alone gives.
C14_EmbeddedJson ==
    (Finished /\ ValidObject /\ ~rj_parts.loose) =>
        /\ rj_pc = "returned"
        /\ rj_result.value = json_loads(rj_parts.doc.json).v

\* the text of a document whose strings hold no //, no comma before a closing
\* brace and no brace
PlainStrings ==
    rj_parts.doc \in {D_SIMPLE, D_NESTED, D_QUOTE}

\* The same for prose without braces and documents whose strings hold neither
\* // nor a comma before a closing brace.
C14_PlainEmbeddedJson ==
    (Finished /\ ValidObject /\ ~rj_parts.loose /\ PlainStrings
       /\ Find(rj_parts.before, "{", 1) = 0) =>
        /\ rj_pc = "returned"
        /\ rj_result.value = json_loads(rj_parts.doc.json).v

\* C15: for a text that is a JSON object but for trailing commas before its
\* closing braces and brackets, robust_json_parse returns the object of the
\* text without those commas: same keys, same order, same values.
C15_TrailingCommas ==
    (Finished /\ ValidObject /\ rj_parts.loose /\ ~rj_parts.fence
       /\ rj_parts.before = <<>> /\ rj_parts.after = <<>>) =>
        /\ rj_pc = "returned"
        /\ rj_result.value = json_loads(rj_parts.doc.json).v

\* The same for documents whose strings hold no comma before a closing brace.
C15_TrailingCommasOutsideStrings ==
    (Finished /\ ValidObject /\ rj_parts.loose /\ ~rj_parts.fence
       /\ rj_parts.before = <<>> /\ rj_parts.after = <<>>
       /\ rj_parts.doc # D_COMMA) =>
        /\ rj_pc = "returned"
        /\ rj_result.value = json_loads(rj_parts.doc.json).v

\* the five parse attempts, in the order they are made
AllAttempts ==
    <<"Cleaned text", "Original text", "Text with trailing comma fix",
      "aggressive cleaning", "quote fixes">>

\* C16: robust_json_parse raises only after the five parse attempts have all
\* failed, the error then carries the position of the decode error and a
\* window of the text around it, and what it returns is what one of the
\* attempts parsed, never an object put in place of a failed parse.
C16_RaisesWithPosition ==
    /\ rj_pc = "raised" =>
         /\ attempts_failed = AllAttempts
         /\ rj_result.by = "JSONDecodeError"
         /\ rj_result.pos = json_loads(text).pos
         /\ rj_result.window # None
         /\ \E a \in 1..(Len(text) + 1) : \E b \in (a - 1)..Len(text) :
                /\ a <= rj_result.pos + 1 /\ rj_result.pos <= b
                /\ rj_result.window = Some(SubSeq(text, a, b))
    /\ rj_pc = "returned" =>
         \E t \in {text, original_text, FixTrailingCommas(original_text),
                   Strategy7Text(text), Strategy8Text(text)} :
             json_loads(t).ok /\ rj_result.value = json_loads(t).v

\* The same, with the window only where the decode error is past the first
\* character.
C16_RaisesAfterAllAttempts ==
    /\ rj_pc = "raised" =>
         /\ attempts_failed = AllAttempts
         /\ rj_result.by = "JSONDecodeError"
         /\ rj_result.pos = json_loads(text).pos
         /\ rj_result.pos # 0 =>
              \E a \in 1..(Len(text) + 1) : \E b \in (a - 1)..Len(text) :
                 /\ a <= rj_result.pos + 1 /\ rj_result.pos <= b
                 /\ rj_result.window = Some(SubSeq(text, a, b))
    /\ rj_pc = "returned" =>
         \E t \in {text, original_text, FixTrailingCommas(original_text),
                   Strategy7Text(text), Strategy8Text(text)} :
             json_loads(t).ok /\ rj_result.value = json_loads(t).v

\* the text passed is itself a JSON object
RawIsObject == json_loads(original_text).ok /\ json_loads(original_text).v.t = "obj"

\* C27: when the text passed is itself a valid JSON object, robust_json_parse
\* returns the object that parsing the text gives: the cleaning steps change
\* no string of it.
C27_ValidTextUntouched ==
    (Finished /\ RawIsObject) =>
        /\ rj_pc = "returned"
        /\ rj_result.value = json_loads(original_text).v

\* The same for the objects with no comma before a closing brace or bracket
\* inside a string; a string with // is restored by the parse of the
\* original text.
C27_UntouchedButCommas ==
    (Finished /\ RawIsObject /\ rj_parts.doc # D_COMMA) =>
        /\ rj_pc = "returned"
        /\ rj_result.value = json_loads(original_text).v

\* C28: what robust_json_parse returns is a JSON object, never a list, a
\* string, a number, a boolean or null; a text whose JSON value is not an
\* object is rejected.
C28_ReturnsObject ==
    rj_pc = "returned" => rj_result.value.t = "obj"

(***************************************************************************)
(* Properties of the bill and report extractions                           *)
(***************************************************************************)
\* the three extractions of the text have ended
AllExtracted ==
    /\ rj_pc \in {"returned", "raised"}
    /\ bill_json.kind \in {"returned", "raised"}
    /\ report_json.kind \in {"returned", "raised"}

\* what robust_json_parse gave for the text, as the other two are recorded
RobustOutcome == [kind |-> rj_result.kind, value |-> rj_result.value]

\* C23: for every inference text the bill path and the report path obtain
\* the object robust_json_parse obtains, and fail only when it fails.
C23_SameExtraction ==
    AllExtracted => bill_json = RobustOutcome /\ report_json = RobustOutcome

\* The bill path and the report path give the same outcome as each other.
C23_BillAndReportAgree ==
    (bill_json.kind \in {"returned", "raised"} /\ report_json.kind \in {"returned", "raised"})
        => bill_json = report_json

\* the text is a strict document alone or in a fence, with no prose, and its
\* strings hold neither // nor a comma before a closing brace
BareDocument ==
    /\ rj_parts.before = <<>>
    /\ rj_parts.after = <<>>
    /\ ~rj_parts.loose
    /\ rj_parts.doc \notin {D_URL, D_COMMA, D_SINGLE}

\* The three extractions agree on a strict document, fenced or not, that
\* stands alone.
C23_SameOnBareDocuments ==
    (AllExtracted /\ BareDocument) =>
        bill_json = RobustOutcome /\ report_json = RobustOutcome

(***************************************************************************)
(* Properties of the followup loop                                         *)
(***************************************************************************)
\* the entry has a followup_date that strptime takes as %Y-%m-%d
HasParseableDate(entry) ==
    /\ entry.is_dict
    /\ entry.followup_date.t = "str"
    /\ Strptime(entry.followup_date.v) # None

\* the dates of the entries of list that satisfy Kept, in the order of list
DatesOf(list, Kept(_)) ==
    LET kept == SelectSeq(list, Kept)
    IN  [i \in 1..Len(kept) |-> Strptime(kept[i].followup_date.v)[1]]

\* the dates of the Followups produced
ProducedDates ==
    [i \in 1..Len(appointment_followups) |-> appointment_followups[i].followup_date]

\* C20: an entry produces a Followup if and only if its followup_date is
\* present and parses as YYYY-MM-DD: the Followups produced are, in the order
\* of the input, one for each entry with a parseable date, each with the date
\* parsed.
C20_FollowupIffDate ==
    fu_pc = "done" => ProducedDates = DatesOf(followup_data_list, HasParseableDate)

\* the other fields of the entry pass: the status is absent, empty or a
\* string and each flag is absent or a value a bool field takes
OtherFieldsPass(entry) ==
    /\ ~Truthy(entry.status) \/ entry.status.t = "str"
    /\ BoolField(GetOrFalse(entry.isreminder1sent)).exc = "none"
    /\ BoolField(GetOrFalse(entry.isreminder2sent)).exc = "none"

ProducesFollowup(entry) == HasParseableDate(entry) /\ OtherFieldsPass(entry)

\* The Followups produced are, in the order of the input, one for each entry
\* with a parseable date whose other fields pass, each with the date parsed;
\* an entry without a parseable date produces none.
C20_FollowupOnlyWithDate ==
    fu_pc = "done" => ProducedDates = DatesOf(followup_data_list, ProducesFollowup)

\* the entries of the list with a parseable date, in the order of the list
DatedEntries == SelectSeq(followup_data_list, HasParseableDate)

\* each reminder flag of every entry is absent or a value a bool field takes
FlagsPass ==
    \A i \in 1..Len(followup_data_list) :
        /\ BoolField(GetOrFalse(followup_data_list[i].isreminder1sent)).exc = "none"
        /\ BoolField(GetOrFalse(followup_data_list[i].isreminder2sent)).exc = "none"

\* the status is confirmed or not_confirmed in any case
NamesStatus(value) ==
    value.t = "str" /\ EnumLookup(FollowupStatus, Lower(value.v)) # <<>>

\* C21: an entry with a parseable date yields a Followup whatever its status
\* is: a status that does not parse as confirmed or not_confirmed, of any
\* type, gives not_confirmed, and a reminder flag absent from the entry is
\* false in the Followup.
C21_StatusFallback ==
    (fu_pc = "done" /\ FlagsPass) =>
        /\ Len(appointment_followups) = Len(DatedEntries)
        /\ \A i \in 1..Len(DatedEntries) :
             /\ ~NamesStatus(DatedEntries[i].status)
                  => appointment_followups[i].status = "not_confirmed"
             /\ DatedEntries[i].isreminder1sent = JMissing
                  => appointment_followups[i].isreminder1sent = FALSE
             /\ DatedEntries[i].isreminder2sent = JMissing
                  => appointment_followups[i].isreminder2sent = FALSE

\* every status of the list is absent, empty or a string
StatusesAreText ==
    \A i \in 1..Len(followup_data_list) :
        ~Truthy(followup_data_list[i].status) \/ followup_data_list[i].status.t = "str"

\* The same for statuses that are strings or absent.
C21_TextStatusFallback ==
    (fu_pc = "done" /\ FlagsPass /\ StatusesAreText) =>
        /\ Len(appointment_followups) = Len(DatedEntries)
        /\ \A i \in 1..Len(DatedEntries) :
             /\ ~NamesStatus(DatedEntries[i].status)
                  => appointment_followups[i].status = "not_confirmed"
             /\ DatedEntries[i].isreminder1sent = JMissing
                  => appointment_followups[i].isreminder1sent = FALSE
             /\ DatedEntries[i].isreminder2sent = JMissing
                  => appointment_followups[i].isreminder2sent = FALSE

\* the value of the field called name in a Followup produced, JMissing if the
\* record has no such field
FieldOf(followup, name) ==
    IF name \in DOMAIN followup THEN followup[name] ELSE JMissing

\* each entry with a parseable date produced a Followup
AllDatedProduced == Len(appointment_followups) = Len(DatedEntries)

\* C22: a Followup built from an entry with a parseable date carries the
\* reason and the notes of the entry, or none where the entry has none.
C22_ReasonAndNotes ==
    (fu_pc = "done" /\ AllDatedProduced) =>
        \A i \in 1..Len(DatedEntries) :
            /\ FieldOf(appointment_followups[i], "reason") = DatedEntries[i].reason
            /\ FieldOf(appointment_followups[i], "notes") = DatedEntries[i].notes

\* No Followup produced has a reason or a notes field.
C22_NoReasonNoNotes ==
    \A i \in 1..Len(appointment_followups) :
        DOMAIN appointment_followups[i] =
            {"followup_date", "isreminder1sent", "isreminder2sent", "status"}

(***************************************************************************)
(* Properties of create_patient                                            *)
(***************************************************************************)
\* value holds a date at some depth
RECURSIVE ContainsDate(_)
ContainsDate(value) ==
    IF value.t = "date" THEN TRUE
    ELSE IF value.t = "list" THEN \E i \in 1..Len(value.v) : ContainsDate(value.v[i])
    ELSE IF value.t = "obj" THEN \E i \in 1..Len(value.v) : ContainsDate(value.v[i].v)
    ELSE FALSE

\* the mapping has been serialized and is the one handed to the store
HandedToStore == cp_pc \in {"serialized", "inserted", "raised"}

\* C30: the mapping handed to the record store holds no date at any depth:
\* every date, the followup_date of each appointment followup included, is
\* its YYYY-MM-DD string.
C30_NoDateLeft == HandedToStore => ~ContainsDate(patient_dict)

\* No value of the mapping and no item of a list of the mapping is a date:
\* admission_date and discharge_date are their YYYY-MM-DD strings.
C30_NoDateInTwoLevels ==
    HandedToStore =>
        \A i \in 1..Len(patient_dict.v) :
            /\ patient_dict.v[i].v.t # "date"
            /\ patient_dict.v[i].v.t = "list" =>
                 \A j \in 1..Len(patient_dict.v[i].v.v) : patient_dict.v[i].v.v[j].t # "date"
            /\ patient_dict.v[i].k = "admission_date" =>
                 patient_dict.v[i].v = JStr(Isoformat(patient.admission_date))

\* The followup_date of every appointment followup handed to the store is
\* still a date.
C30_FollowupDatesLeft ==
    HandedToStore =>
        \A i \in 1..Len(patient_dict.v) :
            patient_dict.v[i].k = "appointment_followup" =>
                \A j \in 1..Len(patient_dict.v[i].v.v) :
                    patient_dict.v[i].v.v[j].v[1].v.t = "date"

(***************************************************************************)
(* Properties of the medication builder                                    *)
(***************************************************************************)
\* the MedicationDetail built
Medication == medication[1]

\* the window and the day-set of the medication built
BuiltStart == EffectiveStart(Medication.start_date, mb_today)

BuiltEnd == EffectiveEnd(Medication.end_date, BuiltStart)

BuiltDaySet == SetOf(DaysToUse(Medication.days, Medication.frequency, BuiltStart))

\* C4 as stated: a medication built has an empty reminders list if and only
\* if its resolved frequency is as_needed.
C4_EmptyIffAsNeeded ==
    mb_pc = "built" => (Medication.reminders = <<>> <=> Medication.frequency = "as_needed")

\* C4, amended: a medication built has an empty reminders list if and only if
\* its resolved frequency is as_needed or no date from the effective start to
\* the effective end falls on a weekday of the day-set (the end is before the
\* start, or the explicit days miss a window shorter than a week).
C4_EmptyIffNothingScheduled ==
    mb_pc = "built" =>
        (Medication.reminders = <<>> <=>
            \/ Medication.frequency = "as_needed"
            \/ ~\E d \in BuiltStart..BuiltEnd : DayAt(Weekday(d)) \in BuiltDaySet)

\* a medication that is not as_needed was built without reminders
C4_Witness ==
    /\ mb_pc = "built"
    /\ Medication.frequency = "daily"
    /\ Medication.reminders = <<>>

\* the iteration of the medication loop has ended
BuildEnded == mb_pc \in {"built", "raised"}

\* C17: building a Medication from a parsed entry never fails: whatever the
\* fields of the entry are (absent, null, of the wrong type), a Medication is
\* produced and no exception leaves the iteration to abort the parse.
C17_NeverFails == BuildEnded => mb_pc = "built" /\ Len(medication) = 1

\* the fields of the entry that are not enum values cannot raise: the name is
\* absent or a string and no timing text holds an hour beyond 32 bits
SoundElsewhere ==
    /\ med_data.name.t # "num"
    /\ med_data.timing # JList(<<JStr(T_HUGE)>>)

\* the member of enum that value names whatever its case, or default
MemberNamed(enum, value, default) ==
    IF value.t = "str" /\ EnumLookup(enum, Lower(value.v)) # <<>>
    THEN EnumLookup(enum, Lower(value.v))[1]
    ELSE default

\* the weekdays named by the entries of a days list, in the order of the list
WeekdaysNamed(days) ==
    LET entries == IF days.t = "list" THEN days.v ELSE <<>>
        named == SelectSeq(entries, LAMBDA d : MemberNamed(DayEnum, d, "") # "")
    IN  [i \in 1..Len(named) |-> MemberNamed(DayEnum, named[i], "")]

\* C18: a value that fails enum lookup never aborts the build: the days
\* entries that are not weekday names are dropped and the others kept in
\* order, a frequency that is not a member yields daily, a status that is not
\* a member yields active.
C18_EnumFallbacks ==
    (BuildEnded /\ SoundElsewhere /\ med_data.days.t \in {"missing", "list"}) =>
        /\ mb_pc = "built"
        /\ Medication.days = WeekdaysNamed(med_data.days)
        /\ Medication.frequency = MemberNamed(FrequencyEnum, med_data.frequency, "daily")
        /\ Medication.status = MemberNamed(MedicationStatus, med_data.status, "active")

\* every enum value of the entry is a string or absent
EnumValuesAreStrings ==
    /\ med_data.frequency.t \in {"missing", "str"}
    /\ med_data.status.t \in {"missing", "str"}
    /\ med_data.days.t \in {"missing", "list"}
    /\ med_data.days.t = "list" => \A i \in 1..Len(med_data.days.v) : med_data.days.v[i].t = "str"

\* The same for enum values that are strings.
C18_StringFallbacks ==
    (BuildEnded /\ SoundElsewhere /\ EnumValuesAreStrings) =>
        /\ mb_pc = "built"
        /\ Medication.days = WeekdaysNamed(med_data.days)
        /\ Medication.frequency = MemberNamed(FrequencyEnum, med_data.frequency, "daily")
        /\ Medication.status = MemberNamed(MedicationStatus, med_data.status, "active")

\* C19: the timing list of every Medication built holds only non-empty
\* strings.
C19_NonEmptyTimings ==
    mb_pc = "built" =>
        \A i \in 1..Len(Medication.timing) : Medication.timing[i] # <<>>

\* The timing list of a Medication built is, in order, the entries of the
\* input that are non-empty strings, each without its outer whitespace.
C19_TruthyStringsStripped ==
    (mb_pc = "built" /\ med_data.timing.t = "list") =>
        LET kept == SelectSeq(med_data.timing.v, LAMBDA t : t.t = "str" /\ t.v # <<>>)
        IN  Medication.timing = [i \in 1..Len(kept) |-> Strip(kept[i].v)]

(***************************************************************************)
(* Properties of the bill batch and the report batch                       *)
(***************************************************************************)
BillStepPcs ==
    {"bill_check", "bill_upload", "bill_rasterize", "bill_infer", "bill_extract",
     "bill_build"}

ReportStepPcs ==
    {"report_check", "report_upload", "report_rasterize", "report_infer",
     "report_extract", "report_build"}

Last(seq) == seq[Len(seq)]

\* the iteration ended because one of its steps raised
Raised(how) == how \notin {"Succeeded", "Skipped"}

\* this step ends an iteration of the bill loop / of the report loop
BillEnds == Len(outcome'.bill) > Len(outcome.bill)

ReportEnds == Len(outcome'.report) > Len(outcome.report)

\* the entries of the documents that succeeded, in the order of the input
SucceededEntries(folder, kind, context, outcomes) ==
    LET positions == SelectSeq([i \in 1..Len(outcomes) |-> i],
                               LAMBDA i : outcomes[i] = "Succeeded")
    IN  [j \in 1..Len(positions) |->
           [url |-> Url(folder, positions[j]),
            parsed |-> Parsed(kind, positions[j], context)]]

\* C1: in both batches an exception raised at any step of one document's
\* iteration is taken inside that iteration: the handler does not leave the
\* loop or answer the request, the loop goes on with the next document, and
\* the loop is left only when every document has had its iteration.
C1_ExceptionsCaught ==
    [][ /\ (BillEnds /\ Raised(Last(outcome'.bill)))
           => /\ pc' = AfterBill(idx)
              /\ idx' = idx + 1
              /\ response' = response
        /\ (ReportEnds /\ Raised(Last(outcome'.report)))
           => /\ pc' = AfterReport(idx)
              /\ idx' = idx + 1
              /\ response' = response
        /\ (pc \in BillStepPcs /\ pc' \notin BillStepPcs)
           => /\ pc' = "reports"
              /\ Len(outcome'.bill) = Len(request.bill_details)
        /\ (pc \in ReportStepPcs /\ pc' \notin ReportStepPcs)
           => /\ pc' = "certificate"
              /\ Len(outcome'.report) = Len(request.reports)
      ]_vars

\* a bill raised and the bill after it succeeded; a report raised during
\* inference and the report after it was processed too
C1_Witness ==
    /\ \E i \in 1..(Len(outcome.bill) - 1) :
         Raised(outcome.bill[i]) /\ outcome.bill[i + 1] = "Succeeded"
    /\ \E i \in 1..(Len(outcome.report) - 1) :
         outcome.report[i] = "InferenceFailed" /\ outcome.report[i + 1] = "Succeeded"

C3_ItemIsolation ==
    [][ /\ BillEnds
           => /\ bills_list' =
                   IF Last(outcome'.bill) = "Succeeded"
                   THEN Append(bills_list,
                               [url |-> Url("bills", idx),
                                parsed |-> Parsed("bill", idx, "none")])
                   ELSE bills_list
              /\ reports_list' = reports_list
        /\ ReportEnds
           => /\ reports_list' =
                   IF Last(outcome'.report) = "Succeeded"
                   THEN Append(reports_list,
                               [url |-> Url("reports", idx),
                                parsed |-> Parsed("report", idx, medication_details_dict)])
                   ELSE reports_list
              /\ bills_list' = bills_list
      ]_vars

\* after a bill succeeded a later bill raised or was skipped, and after a
\* report succeeded a later report succeeded as well
C3_Witness ==
    /\ Len(outcome.bill) >= 2
    /\ outcome.bill[1] = "Succeeded"
    /\ outcome.bill[2] # "Succeeded"
    /\ Len(bills_list) = 1
    /\ Len(reports_list) >= 2

\* the request has ended with an error
Aborted == pc = "failed"

\* the patient record was handed to create_patient and stored
Persisted == pc = "done" /\ response = 201

\* a step of the discharge summary failed
DischargeFailed == outcome.discharge \notin {"", "Parsed"}

\* no bill and no report has been processed
NothingProcessed ==
    /\ outcome.bill = <<>> /\ outcome.report = <<>>
    /\ bills_list = <<>> /\ reports_list = <<>>

\* the upload of another document failed
CertificateFailed == outcome.certificate \in {"WrongKind", "UploadFailed"}

\* C24: the discharge summary is the only document whose failure aborts the
\* flow: its failure ends the request with an error before any bill or report
\* is processed and before anything is persisted, and the failure of no other
\* uploaded document ends the request.
C24_OnlyDischargeAborts ==
    /\ DischargeFailed => Aborted /\ NothingProcessed /\ ~Persisted
    /\ Aborted =>
         \* at the discharge summary
         \/ outcome.discharge # ""
         \* before any document: the validation, the medication details
         \/ outcome.certificate = "" /\ NothingProcessed
         \* at create_patient, every document dealt with
         \/ outcome.certificate # "" /\ ~CertificateFailed

\* A failure of the discharge summary ends the request with an error before
\* any bill or report is processed and before anything is persisted.
C24_DischargeFailureAborts ==
    DischargeFailed => Aborted /\ NothingProcessed /\ ~Persisted

\* The failure of a bill or of a report does not end the request: the flow
\* is aborted only at the validation, at the medication details, at the
\* discharge summary, at the certificate or at create_patient.
C24_BatchFailuresDoNotAbort ==
    [][pc' = "failed" => pc \in {"validate", "discharge", "certificate"}]_vars

\* C25: per document of a batch the steps run in the order file-kind check,
\* upload, rasterize, inference, extraction, record building, each only after
\* the one before it succeeded; a document of the wrong kind goes through no
\* step but the check; each document ends in one terminal state; an entry is
\* added to the batch output only by a record building that succeeded.
C25_StepOrder ==
    [][ /\ pc' = "bill_upload" => pc = "bill_check" /\ request.bill_details[idx] = "pdf"
        /\ pc' = "bill_rasterize" => pc = "bill_upload" /\ bill_url' = Url("bills", idx)
        /\ pc' = "bill_infer" => pc = "bill_rasterize"
        /\ pc' = "bill_extract" => pc = "bill_infer"
        /\ pc' = "bill_build" => pc = "bill_extract"
        /\ pc' = "report_upload" => pc = "report_check" /\ request.reports[idx] = "pdf"
        /\ pc' = "report_rasterize" => pc = "report_upload" /\ report_url' = Url("reports", idx)
        /\ pc' = "report_infer" => pc = "report_rasterize"
        /\ pc' = "report_extract" => pc = "report_infer"
        /\ pc' = "report_build" => pc = "report_extract"
        /\ (pc = "bill_check" /\ request.bill_details[idx] # "pdf")
             => /\ outcome'.bill = Append(outcome.bill, "Skipped")
                /\ pc' = AfterBill(idx)
                /\ bill_url' = bill_url /\ parsed_bill' = parsed_bill
        /\ (pc = "report_check" /\ request.reports[idx] # "pdf")
             => /\ outcome'.report = Append(outcome.report, "Skipped")
                /\ pc' = AfterReport(idx)
                /\ report_url' = report_url /\ parsed_report' = parsed_report
        /\ (pc \in BillStepPcs /\ idx' # idx)
             => /\ idx' = idx + 1
                /\ Len(outcome'.bill) = idx
                /\ SubSeq(outcome'.bill, 1, idx - 1) = outcome.bill
        /\ (pc \in ReportStepPcs /\ idx' # idx)
             => /\ idx' = idx + 1
                /\ Len(outcome'.report) = idx
                /\ SubSeq(outcome'.report, 1, idx - 1) = outcome.report
        /\ bills_list' # bills_list
             => /\ pc = "bill_build" /\ Last(outcome'.bill) = "Succeeded"
                /\ bills_list' = Append(bills_list, [url |-> Url("bills", idx),
                                                     parsed |-> Parsed("bill", idx, "none")])
        /\ reports_list' # reports_list
             => /\ pc = "report_build" /\ Last(outcome'.report) = "Succeeded"
                /\ Last(reports_list').url = Url("reports", idx)
                /\ Len(reports_list') = Len(reports_list) + 1
      ]_vars

\* the terminal states of a document
TerminalStates ==
    {"Skipped", "UploadFailed", "RasterizeFailed", "InferenceFailed", "ExtractionFailed",
     "ValidationFailed", "Succeeded"}

\* When a batch is left every document has one terminal state, and the
\* entries are those of the documents that succeeded.
C25_OneTerminalState ==
    /\ \A i \in 1..Len(outcome.bill) : outcome.bill[i] \in TerminalStates
    /\ \A i \in 1..Len(outcome.report) : outcome.report[i] \in TerminalStates
    /\ pc \in {"certificate", "done"} =>
         /\ Len(outcome.bill) = Len(request.bill_details)
         /\ Len(outcome.report) = Len(request.reports)
         /\ \A i \in 1..Len(outcome.bill) :
              outcome.bill[i] = "Skipped" <=> request.bill_details[i] # "pdf"
         /\ Len(bills_list) = Cardinality({i \in 1..Len(outcome.bill) : outcome.bill[i] = "Succeeded"})
         /\ Len(reports_list) =
              Cardinality({i \in 1..Len(outcome.report) : outcome.report[i] = "Succeeded"})

\* a wrong-kind bill was skipped, a later bill went through every step and
\* has its entry, and a report failed at the extraction
C25_Witness ==
    /\ pc = "certificate"
    /\ Len(outcome.bill) = 2
    /\ outcome.bill[1] = "Skipped" /\ outcome.bill[2] = "Succeeded"
    /\ bills_list = <<[url |-> Url("bills", 2), parsed |-> Parsed("bill", 2, "none")]>>
    /\ \E i \in 1..Len(outcome.report) : outcome.report[i] = "ExtractionFailed"

\* C26: when every step of the discharge summary succeeds the flow does not
\* abort: medication_details holds the medications built and the provenance
\* fields, and the flow goes on to the bills and the reports.
C26_ParsedSummaryContinues ==
    outcome.discharge = "Parsed" =>
        /\ ~Aborted
        /\ medication_details_dict = "discharge_summary"

\* A request with a discharge summary never gets past it: whatever the
\* outcome of its steps, the request ends there with an error.
C26_SummaryAlwaysAborts ==
    (request.discharge_summary_pdf # "absent" /\ pc \notin {"validate", "discharge"})
        => Aborted /\ NothingProcessed /\ medication_details_dict = "unset"

====
